---- MODULE Spec2Model ----
(***************************************************************************)
(* A model of the HTTP message library (hioa-cs/http): the header field    *)
(* store (vector backed, src/inc, and list backed, src/http), the Message  *)
(* body bookkeeping, and the Request-Line / Status-Line matchers.          *)
(*                                                                         *)
(* Text is a sequence of one-character strings.  NUL stands for the        *)
(* terminating '\0' that *end() of a std::string yields.                   *)
(***************************************************************************)
EXTENDS Integers, Sequences, FiniteSets, TLC

VARIABLES
  fields_,        \* inc Header: the vector of (name, value) pairs
  capacity,       \* inc Header: fields_.capacity()
  map_,           \* legacy Header: the list of (name, value) pairs
  limit_,         \* legacy Header: limit_
  message_body_,  \* Message / legacy Response: the body
  op,             \* the operation that produced this state
  arg,            \* the arguments of that operation
  ret,            \* what the operation returned (inc or only object)
  lret,           \* what the operation returned on the legacy object
  val,            \* the outcome of the last get_value (inc or only object)
  lval,           \* the outcome of the last get_value on the legacy object
  calls,          \* the add_field calls made so far (history)
  input,          \* wire text handed to a parsing constructor
  out             \* the outcome of that constructor

vars == <<fields_, capacity, map_, limit_, message_body_, op, arg, ret, lret,
          val, lval, calls, input, out>>

(***************************************************************************)
(* Bounds                                                                  *)
(***************************************************************************)
MaxLimit == 2        \* largest header capacity tried

(***************************************************************************)
(* Characters: <cctype> in the "C" locale, restricted to the characters    *)
(* that occur in the model's texts.                                        *)
(***************************************************************************)
NUL == "NUL"
SP  == " "
HT  == "\t"
CR  == "\r"
LF  == "\n"
FF  == "\f"

isspace(c) == c \in {SP, HT, LF, FF, CR}
iscntrl(c) == c \in {NUL, HT, LF, FF, CR}
isdigit(c) == c \in {"0", "1", "2", "3", "4", "5", "6", "7", "8", "9"}

UpperCase == <<"A","B","C","D","E","F","G","H","I","J","K","L","M",
               "N","O","P","Q","R","S","T","U","V","W","X","Y","Z">>
LowerCase == <<"a","b","c","d","e","f","g","h","i","j","k","l","m",
               "n","o","p","q","r","s","t","u","v","w","x","y","z">>

isalpha(c) == \E k \in 1..26 : c = UpperCase[k] \/ c = LowerCase[k]

tolower(c) ==
  IF \E k \in 1..26 : c = UpperCase[k]
  THEN LowerCase[CHOOSE k \in 1..26 : c = UpperCase[k]]
  ELSE c

string_to_lower_case(s) == [k \in 1..Len(s) |-> tolower(s[k])]

\* *iterator for a std::string: the character, or the terminator at end()
At(data, it) == IF it >= 1 /\ it <= Len(data) THEN data[it] ELSE NUL

\* data.find(pat, from): least position >= from where pat occurs, 0 for npos
\* (positions are 1-based: position p is the C++ index p-1)
Find(data, pat, from) ==
  LET hits == {p \in from..(Len(data) - Len(pat) + 1) :
                 SubSeq(data, p, p + Len(pat) - 1) = pat}
  IN IF hits = {} THEN 0 ELSE CHOOSE p \in hits : \A q \in hits : p <= q

\* data.substr(pos) with pos 1-based
Substr(data, pos) == SubSeq(data, pos, Len(data))

RECURSIVE Concat(_)
Concat(ss) == IF ss = <<>> THEN <<>> ELSE Head(ss) \o Concat(Tail(ss))

CRLF == <<CR, LF>>
Content_Length == <<"C","o","n","t","e","n","t","-","L","e","n","g","t","h">>

\* std::to_string(n) for a size_t
RECURSIVE to_string_num(_)
to_string_num(n) ==
  LET d == <<"0","1","2","3","4","5","6","7","8","9">>[(n % 10) + 1]
  IN IF n < 10 THEN <<d>> ELSE Append(to_string_num(n \div 10), d)

(***************************************************************************)
(* Header (src/inc/header.hpp): std::vector backed.                        *)
(* A Header value is the pair fields (the vector) and cap (its capacity).  *)
(***************************************************************************)
size(flds) == Len(flds)

\* fields_.reserve(limit): grows the capacity, never shrinks it
set_limit(cap, limit) == IF limit > cap THEN limit ELSE cap

get_limit(cap) == cap

\* find that compares the names as they are spelled
find_exact(flds, field) ==
  IF field = <<>> THEN Len(flds) + 1
  ELSE LET hits == {k \in 1..Len(flds) : flds[k][1] = field}
       IN IF hits = {} THEN Len(flds) + 1
          ELSE CHOOSE k \in hits : \A j \in hits : k <= j

\* position of the first field whose name matches, Len+1 for end()
find(flds, field) ==
  IF field = <<>> THEN Len(flds) + 1
  ELSE LET hits == {k \in 1..Len(flds) :
                      string_to_lower_case(flds[k][1]) = string_to_lower_case(field)}
       IN IF hits = {} THEN Len(flds) + 1
          ELSE CHOOSE k \in hits : \A j \in hits : k <= j

\* add_field that overwrites the value of a field already stored
add_field_replacing(flds, cap, field, value) ==
  IF field = <<>> THEN [fields |-> flds, ret |-> FALSE]
  ELSE IF find(flds, field) # Len(flds) + 1
       THEN [fields |-> [flds EXCEPT ![find(flds, field)] = <<field, value>>],
             ret |-> TRUE]
       ELSE IF size(flds) < cap
            THEN [fields |-> Append(flds, <<field, value>>), ret |-> TRUE]
            ELSE [fields |-> flds, ret |-> FALSE]

\* add_field without the capacity test
add_field_unbounded(flds, cap, field, value) ==
  IF field = <<>> THEN [fields |-> flds, ret |-> FALSE]
  ELSE [fields |-> Append(flds, <<field, value>>), ret |-> TRUE]

add_field(flds, cap, field, value) ==
  IF field = <<>> THEN [fields |-> flds, ret |-> FALSE]
  ELSE IF size(flds) < cap
       THEN [fields |-> Append(flds, <<field, value>>), ret |-> TRUE]
       ELSE [fields |-> flds, ret |-> FALSE]

\* set_field that stores the name as it was passed
set_field_renaming(flds, cap, field, value) ==
  IF field = <<>> \/ value = <<>> THEN [fields |-> flds, ret |-> FALSE]
  ELSE LET target == find(flds, field)
       IN IF target # Len(flds) + 1
          THEN [fields |-> [flds EXCEPT ![target] = <<field, value>>], ret |-> TRUE]
          ELSE add_field(flds, cap, field, value)

set_field(flds, cap, field, value) ==
  IF field = <<>> \/ value = <<>> THEN [fields |-> flds, ret |-> FALSE]
  ELSE LET target == find(flds, field)
       IN IF target # Len(flds) + 1
          THEN [fields |-> [flds EXCEPT ![target] = <<flds[target][1], value>>],
                ret |-> TRUE]
          ELSE add_field(flds, cap, field, value)

has_field(flds, field) ==
  IF field = <<>> THEN FALSE ELSE find(flds, field) # Len(flds) + 1

is_empty(flds) == flds = <<>>

\* fields_.erase(target): removes the one element find() located
erase(flds, field) ==
  IF field = <<>> THEN flds
  ELSE LET target == find(flds, field)
       IN IF target # Len(flds) + 1
          THEN SubSeq(flds, 1, target - 1) \o SubSeq(flds, target + 1, Len(flds))
          ELSE flds

clear(flds) == <<>>

\* to_string without the terminating blank line
to_string_bare(flds) ==
  Concat([k \in 1..Len(flds) |-> flds[k][1] \o <<":", SP>> \o flds[k][2] \o CRLF])

to_string(flds) ==
  Concat([k \in 1..Len(flds) |-> flds[k][1] \o <<":", SP>> \o flds[k][2] \o CRLF])
    \o CRLF

(***************************************************************************)
(* Header::add_fields (src/inc/header.hpp): the bulk parser.  "it" is the  *)
(* iterator as a 1-based position, Len(data)+1 being the sentinel;         *)
(* "character" is always At(data, it).  stop_char (eof, -1) is no ASCII    *)
(* character, so "character not_eq stop_char" is always true here.         *)
(***************************************************************************)
\* while (iterator not_eq sentinel and isspace(character)) ++iterator
RECURSIVE SkipSpace(_, _)
SkipSpace(data, it) ==
  IF it <= Len(data) /\ isspace(data[it]) THEN SkipSpace(data, it + 1) ELSE it

\* the field-name loop: stops at ':', a control character or whitespace
RECURSIVE ScanField(_, _)
ScanField(data, it) ==
  IF it <= Len(data) /\ data[it] # ":" /\ ~iscntrl(data[it]) /\ ~isspace(data[it])
  THEN ScanField(data, it + 1) ELSE it

\* the value loop: stops at a control character, CR or LF
RECURSIVE ScanValue(_, _)
ScanValue(data, it) ==
  IF it <= Len(data) /\ ~iscntrl(data[it]) /\ data[it] # CR /\ data[it] # LF
  THEN ScanValue(data, it + 1) ELSE it

\* the line terminator run: counts CR and LF characters
RECURSIVE SkipTerminators(_, _)
SkipTerminators(data, it) ==
  IF it <= Len(data) /\ (data[it] = CR \/ data[it] = LF)
  THEN SkipTerminators(data, it + 1) ELSE it

\* from the label parse_value to the end of the folding loop:
\* [it, value, stop] where stop is the "lws_count == 3" break
RECURSIVE ParseValue(_, _, _)
RECURSIVE FoldLoop(_, _, _)
\* parse_value that takes four terminators, not three, as the end
ParseValue_four(data, it, value) ==
  LET e         == ScanValue(data, it)
      v         == value \o SubSeq(data, it, e - 1)
      t         == SkipTerminators(data, e)
      lws_count == t - e
  IN IF lws_count = 4 THEN [it |-> t, value |-> v, stop |-> TRUE]
     ELSE FoldLoop(data, t, v)

ParseValue(data, it, value) ==
  LET e         == ScanValue(data, it)
      v         == value \o SubSeq(data, it, e - 1)
      t         == SkipTerminators(data, e)
      lws_count == t - e
  IN IF lws_count = 3 THEN [it |-> t, value |-> v, stop |-> TRUE]
     ELSE FoldLoop(data, t, v)

FoldLoop(data, it, value) ==
  IF it <= Len(data) /\ isspace(data[it])
  THEN LET j == it + 1
       IN IF j <= Len(data) /\ j + 1 <= Len(data) /\ isspace(data[j + 1])
          THEN FoldLoop(data, j, value)       \* continue
          ELSE ParseValue(data, j, value)     \* goto parse_value
  ELSE [it |-> it, value |-> value, stop |-> FALSE]

\* the loop storing a line without ':' as a field with an empty value
RECURSIVE AddFieldsLoop_lenient(_, _, _, _, _)
AddFieldsLoop_lenient(data, it, limit, flds, cap) ==
  IF ~(it <= Len(data) /\ limit < cap) THEN [fields |-> flds, limit |-> limit]
  ELSE LET a     == SkipSpace(data, it)
           b     == ScanField(data, a)
           field == SubSeq(data, a, b - 1)
           c     == SkipSpace(data, b)
       IN IF At(data, c) # ":"
          THEN [fields |-> add_field(flds, cap, field, <<>>).fields, limit |-> limit]
          ELSE LET pv == ParseValue(data, SkipSpace(data, c + 1), <<>>)
               IN IF pv.stop THEN [fields |-> flds, limit |-> limit]
                  ELSE AddFieldsLoop_lenient(data, pv.it, limit + 1,
                         add_field(flds, cap, field, pv.value).fields, cap)

\* the loop entered once more after the counter has reached the capacity
RECURSIVE AddFieldsLoop_once_more(_, _, _, _, _)
AddFieldsLoop_once_more(data, it, limit, flds, cap) ==
  IF ~(it <= Len(data) /\ limit <= cap) THEN [fields |-> flds, limit |-> limit]
  ELSE LET a     == SkipSpace(data, it)
           b     == ScanField(data, a)
           field == SubSeq(data, a, b - 1)
           c     == SkipSpace(data, b)
       IN IF At(data, c) # ":" THEN [fields |-> flds, limit |-> limit]
          ELSE LET pv == ParseValue(data, SkipSpace(data, c + 1), <<>>)
               IN IF pv.stop THEN [fields |-> flds, limit |-> limit]
                  ELSE AddFieldsLoop_once_more(data, pv.it, limit + 1,
                         add_field(flds, cap, field, pv.value).fields, cap)

\* one pass of the outer while loop and all that follow: the fields stored
\* and the counter limit (the add_field calls made) when the loop is left
RECURSIVE AddFieldsLoop(_, _, _, _, _)
AddFieldsLoop(data, it, limit, flds, cap) ==
  IF ~(it <= Len(data) /\ limit < cap) THEN [fields |-> flds, limit |-> limit]
  ELSE LET a     == SkipSpace(data, it)
           b     == ScanField(data, a)
           field == SubSeq(data, a, b - 1)
           c     == SkipSpace(data, b)
       IN IF At(data, c) # ":" THEN [fields |-> flds, limit |-> limit]
          ELSE LET pv == ParseValue(data, SkipSpace(data, c + 1), <<>>)
               IN IF pv.stop THEN [fields |-> flds, limit |-> limit]
                  ELSE AddFieldsLoop(data, pv.it, limit + 1,
                         add_field(flds, cap, field, pv.value).fields, cap)

add_fields(flds, cap, data) ==
  IF data = <<>> THEN flds ELSE AddFieldsLoop(data, 1, 0, flds, cap).fields

\* the add_field calls one add_fields call makes
add_fields_attempts(flds, cap, data) ==
  IF data = <<>> THEN 0 ELSE AddFieldsLoop(data, 1, 0, flds, cap).limit

(***************************************************************************)
(* Legacy Header (src/http/header.hpp): std::list backed, explicit limit_. *)
(***************************************************************************)
legacy_set_limit(lim, limit) == IF limit <= 0 THEN lim ELSE limit

legacy_add_field(flds, lim, field, value) ==
  IF field = <<>> \/ value = <<>> THEN [fields |-> flds, ret |-> FALSE]
  ELSE IF Len(flds) < lim
       THEN [fields |-> Append(flds, <<field, value>>), ret |-> TRUE]
       ELSE [fields |-> flds, ret |-> FALSE]

legacy_set_field(flds, lim, field, value) ==
  IF field = <<>> \/ value = <<>> THEN [fields |-> flds, ret |-> FALSE]
  ELSE LET target == find(flds, field)
       IN IF target # Len(flds) + 1
          THEN [fields |-> [flds EXCEPT ![target] = <<flds[target][1], value>>],
                ret |-> TRUE]
          ELSE legacy_add_field(flds, lim, field, value)

\* the parsing constructor: the same loop, bounded by limit_
RECURSIVE LegacyParseLoop(_, _, _, _, _)
LegacyParseLoop(data, it, limit, flds, lim) ==
  IF ~(it <= Len(data) /\ limit < lim) THEN flds
  ELSE LET a     == SkipSpace(data, it)
           b     == ScanField(data, a)
           field == SubSeq(data, a, b - 1)
           c     == SkipSpace(data, b)
       IN IF At(data, c) # ":" THEN flds
          ELSE LET pv == ParseValue(data, SkipSpace(data, c + 1), <<>>)
               IN IF pv.stop THEN flds
                  ELSE LegacyParseLoop(data, pv.it, limit + 1,
                         legacy_add_field(flds, lim, field, pv.value).fields, lim)

legacy_Header(data, lim) ==
  IF data = <<>> THEN <<>> ELSE LegacyParseLoop(data, 1, 0, <<>>, lim)

\* Header::get_value: find(field)->second.  When nothing matches, find()
\* returns end() and the dereference is undefined: the build may fault, or
\* yield whatever bytes lie past the last element (empty, or a stale value).
Fault == <<"fault">>
GarbageValues == {<<>>, <<"1">>, <<"2">>}

get_value(flds, field) ==
  IF field = <<>> THEN {field}
  ELSE LET target == find(flds, field)
       IN IF target # Len(flds) + 1 THEN {flds[target][2]}
          ELSE {Fault} \cup GarbageValues

(***************************************************************************)
(* Inputs                                                                  *)
(***************************************************************************)
NoText == <<>>
Names  == {<<"A">>, <<"a">>, <<"B">>}
Values == {<<"1">>, <<"2">>}
NameArgs  == Names \cup {NoText}
ValueArgs == Values \cup {NoText}

Line(n, v) == n \o <<":", SP>> \o v \o CRLF

HeaderTexts ==
  { Line(<<"A">>, <<"1">>) \o CRLF,
    Line(<<"A">>, <<"1">>) \o Line(<<"B">>, <<"2">>) \o CRLF,
    <<"B", ":">>,
    <<":", SP, "1", CR, LF>>,
    <<"n", "o", SP, "h", "d", "r">> }

None == <<"none">>

\* the outcome of a start-line or message constructor: what was stored
\* (method as method::str of the stored enumerator, numbers as limbs)
Zero == <<0, 0>>

Thrown(error, buffer) ==
  [status |-> error, method |-> <<>>, uri |-> <<>>, major |-> Zero,
   minor |-> Zero, code |-> Zero, rest |-> buffer]

NoOutcome == Thrown("none", <<>>)

(***************************************************************************)
(* SpecHeader: a vector-backed Header (src/inc) under its public calls.    *)
(***************************************************************************)
InitHeader ==
  /\ \E limit \in 0..MaxLimit, data \in {NoText} \cup HeaderTexts :
       /\ capacity = set_limit(0, limit)
       /\ fields_ = add_fields(<<>>, set_limit(0, limit), data)
       /\ arg = <<limit, data>>
  /\ map_ = <<>>
  /\ limit_ = 0
  /\ message_body_ = <<>>
  /\ op = "Header"
  /\ ret = FALSE
  /\ lret = FALSE
  /\ val = None
  /\ lval = None
  /\ calls = <<>>
  /\ input = <<>>
  /\ out = NoOutcome

AddField ==
  \E f \in NameArgs, v \in ValueArgs :
    /\ fields_' = add_field(fields_, capacity, f, v).fields
    /\ ret' = add_field(fields_, capacity, f, v).ret
    /\ op' = "add_field"
    /\ arg' = <<f, v>>
    /\ val' = None
    /\ UNCHANGED <<capacity, map_, limit_, message_body_, lret, lval, calls, input, out>>

SetField ==
  \E f \in NameArgs, v \in ValueArgs :
    /\ fields_' = set_field(fields_, capacity, f, v).fields
    /\ ret' = set_field(fields_, capacity, f, v).ret
    /\ op' = "set_field"
    /\ arg' = <<f, v>>
    /\ val' = None
    /\ UNCHANGED <<capacity, map_, limit_, message_body_, lret, lval, calls, input, out>>

AddFields ==
  \E data \in {NoText} \cup HeaderTexts :
    /\ fields_' = add_fields(fields_, capacity, data)
    /\ op' = "add_fields"
    /\ arg' = <<data>>
    /\ ret' = FALSE
    /\ val' = None
    /\ UNCHANGED <<capacity, map_, limit_, message_body_, lret, lval, calls, input, out>>

Erase ==
  \E f \in NameArgs :
    /\ fields_' = erase(fields_, f)
    /\ op' = "erase"
    /\ arg' = <<f>>
    /\ ret' = FALSE
    /\ val' = None
    /\ UNCHANGED <<capacity, map_, limit_, message_body_, lret, lval, calls, input, out>>

Clear ==
  /\ fields_' = clear(fields_)
  /\ op' = "clear"
  /\ arg' = <<>>
  /\ ret' = FALSE
  /\ val' = None
  /\ UNCHANGED <<capacity, map_, limit_, message_body_, lret, lval, calls, input, out>>

SetLimit ==
  \E limit \in 0..MaxLimit :
    /\ capacity' = set_limit(capacity, limit)
    /\ op' = "set_limit"
    /\ arg' = <<limit>>
    /\ ret' = FALSE
    /\ val' = None
    /\ UNCHANGED <<fields_, map_, limit_, message_body_, lret, lval, calls, input, out>>

GetValue ==
  \E f \in NameArgs :
    /\ val' \in get_value(fields_, f)
    /\ op' = "get_value"
    /\ arg' = <<f>>
    /\ ret' = FALSE
    /\ UNCHANGED <<fields_, capacity, map_, limit_, message_body_, lret, lval, calls, input, out>>

HasField ==
  \E f \in NameArgs :
    /\ ret' = has_field(fields_, f)
    /\ op' = "has_field"
    /\ arg' = <<f>>
    /\ val' = None
    /\ UNCHANGED <<fields_, capacity, map_, limit_, message_body_, lret, lval, calls, input, out>>

HeaderToString ==
  /\ val' = to_string(fields_)
  /\ op' = "to_string"
  /\ arg' = <<>>
  /\ ret' = FALSE
  /\ UNCHANGED <<fields_, capacity, map_, limit_, message_body_, lret, lval, calls, input, out>>

NextHeader ==
  \/ HasField
  \/ HeaderToString
  \/ AddField
  \/ SetField
  \/ AddFields
  \/ Erase
  \/ Clear
  \/ SetLimit
  \/ GetValue

SpecHeader == InitHeader /\ [][NextHeader]_vars

(***************************************************************************)
(* SpecLegacy: a list-backed Header (src/http) under its public calls.     *)
(* Header(limit) keeps the default limit_ of 100 when given 0.             *)
(***************************************************************************)
LegacyDefaultLimit == 100

InitLegacy ==
  /\ \E limit \in 1..MaxLimit, data \in {NoText} \cup HeaderTexts :
       /\ limit_ = legacy_set_limit(LegacyDefaultLimit, limit)
       /\ map_ = legacy_Header(data, legacy_set_limit(LegacyDefaultLimit, limit))
       /\ arg = <<limit, data>>
  /\ fields_ = <<>>
  /\ capacity = 0
  /\ message_body_ = <<>>
  /\ op = "Header"
  /\ ret = FALSE
  /\ lret = FALSE
  /\ val = None
  /\ lval = None
  /\ calls = <<>>
  /\ input = <<>>
  /\ out = NoOutcome

LegacyAddField ==
  \E f \in NameArgs, v \in ValueArgs :
    /\ map_' = legacy_add_field(map_, limit_, f, v).fields
    /\ lret' = legacy_add_field(map_, limit_, f, v).ret
    /\ op' = "add_field"
    /\ arg' = <<f, v>>
    /\ lval' = None
    /\ UNCHANGED <<fields_, capacity, limit_, message_body_, ret, val, calls, input, out>>

LegacySetField ==
  \E f \in NameArgs, v \in ValueArgs :
    /\ map_' = legacy_set_field(map_, limit_, f, v).fields
    /\ lret' = legacy_set_field(map_, limit_, f, v).ret
    /\ op' = "set_field"
    /\ arg' = <<f, v>>
    /\ lval' = None
    /\ UNCHANGED <<fields_, capacity, limit_, message_body_, ret, val, calls, input, out>>

LegacyErase ==
  \E f \in NameArgs :
    /\ map_' = erase(map_, f)
    /\ op' = "erase"
    /\ arg' = <<f>>
    /\ lret' = FALSE
    /\ lval' = None
    /\ UNCHANGED <<fields_, capacity, limit_, message_body_, ret, val, calls, input, out>>

LegacyClear ==
  /\ map_' = clear(map_)
  /\ op' = "clear"
  /\ arg' = <<>>
  /\ lret' = FALSE
  /\ lval' = None
  /\ UNCHANGED <<fields_, capacity, limit_, message_body_, ret, val, calls, input, out>>

LegacySetLimit ==
  \E limit \in 0..MaxLimit :
    /\ limit_' = legacy_set_limit(limit_, limit)
    /\ op' = "set_limit"
    /\ arg' = <<limit>>
    /\ lret' = FALSE
    /\ lval' = None
    /\ UNCHANGED <<fields_, capacity, map_, message_body_, ret, val, calls, input, out>>

LegacyGetValue ==
  \E f \in NameArgs :
    /\ lval' \in get_value(map_, f)
    /\ op' = "get_value"
    /\ arg' = <<f>>
    /\ lret' = FALSE
    /\ UNCHANGED <<fields_, capacity, map_, limit_, message_body_, ret, val, calls, input, out>>

NextLegacy ==
  \/ LegacyAddField
  \/ LegacySetField
  \/ LegacyErase
  \/ LegacyClear
  \/ LegacySetLimit
  \/ LegacyGetValue

SpecLegacy == InitLegacy /\ [][NextLegacy]_vars

(***************************************************************************)
(* SpecAdd: a Header(limit) that only receives add_field calls with        *)
(* non-empty names and values; calls records every call made.              *)
(***************************************************************************)
ExtraCalls == 2      \* add_field calls made beyond the capacity

InitAdd ==
  /\ \E limit \in 0..MaxLimit :
       /\ capacity = set_limit(0, limit)
       /\ arg = <<limit, NoText>>
  /\ fields_ = <<>>
  /\ map_ = <<>>
  /\ limit_ = 0
  /\ message_body_ = <<>>
  /\ op = "Header"
  /\ ret = FALSE
  /\ lret = FALSE
  /\ val = None
  /\ lval = None
  /\ calls = <<>>
  /\ input = <<>>
  /\ out = NoOutcome

AddCall ==
  \E f \in Names, v \in Values :
    /\ Len(calls) < capacity + ExtraCalls
    /\ fields_' = add_field(fields_, capacity, f, v).fields
    /\ ret' = add_field(fields_, capacity, f, v).ret
    /\ calls' = Append(calls, <<f, v>>)
    /\ op' = "add_field"
    /\ arg' = <<f, v>>
    /\ UNCHANGED <<capacity, map_, limit_, message_body_, lret, val, lval, input, out>>

NextAdd == AddCall

SpecAdd == InitAdd /\ [][NextAdd]_vars

(***************************************************************************)
(* Message (src/inc/message.hpp): a Header and a body.                     *)
(* A Message value is [fields, body]; cap is the Header's capacity.        *)
(***************************************************************************)
add_header(flds, cap, field, value) == add_field(flds, cap, field, value).fields

set_header(flds, cap, field, value) == set_field(flds, cap, field, value).fields

header_value(flds, field) == get_value(flds, field)

has_header(flds, field) == has_field(flds, field)

erase_header(flds, field) == erase(flds, field)

clear_headers(flds) == clear(flds)

\* add_body that puts the Content-Length field in front of the others
add_body_front(flds, cap, body, message_body) ==
  IF message_body = <<>> THEN [fields |-> flds, body |-> body]
  ELSE [fields |-> IF size(flds) < cap
                   THEN <<<<Content_Length, to_string_num(Len(message_body))>>>> \o flds
                   ELSE flds,
        body   |-> message_body]

add_body(flds, cap, body, message_body) ==
  IF message_body = <<>> THEN [fields |-> flds, body |-> body]
  ELSE [fields |-> add_header(flds, cap, Content_Length,
                              to_string_num(Len(message_body))),
        body   |-> message_body]

clear_body(flds, body) ==
  [fields |-> erase_header(flds, Content_Length), body |-> <<>>]

\* Message::to_string: the Header's text (blank line included), then the body
Message_to_string(flds, body) == to_string(flds) \o body

(***************************************************************************)
(* SpecMessage: a Message(limit) under its header and body calls.          *)
(***************************************************************************)
Bodies      == {<<>>, <<"x">>, <<"x", "y">>}
HeaderNames == {Content_Length, <<"A">>}

InitMessage ==
  /\ \E limit \in 0..MaxLimit :
       /\ capacity = set_limit(0, limit)
       /\ arg = <<limit>>
  /\ fields_ = <<>>
  /\ map_ = <<>>
  /\ limit_ = 0
  /\ message_body_ = <<>>
  /\ op = "Message"
  /\ ret = FALSE
  /\ lret = FALSE
  /\ val = None
  /\ lval = None
  /\ calls = <<>>
  /\ input = <<>>
  /\ out = NoOutcome

\* the header and body calls return the message itself: no text is returned
MsgFrame ==
  /\ val' = None
  /\ UNCHANGED <<capacity, map_, limit_, ret, lret, lval, calls, input, out>>

MsgFrameButOut ==
  /\ val' = None
  /\ UNCHANGED <<capacity, map_, limit_, ret, lret, lval, calls, input>>

AddBody ==
  \E b \in Bodies :
    /\ fields_' = add_body(fields_, capacity, message_body_, b).fields
    /\ message_body_' = add_body(fields_, capacity, message_body_, b).body
    /\ op' = "add_body"
    /\ arg' = <<b>>
    /\ MsgFrame

ClearBody ==
  /\ fields_' = clear_body(fields_, message_body_).fields
  /\ message_body_' = clear_body(fields_, message_body_).body
  /\ op' = "clear_body"
  /\ arg' = <<>>
  /\ MsgFrame

AddHeader ==
  \E f \in HeaderNames, v \in Values :
    /\ fields_' = add_header(fields_, capacity, f, v)
    /\ op' = "add_header"
    /\ arg' = <<f, v>>
    /\ UNCHANGED message_body_
    /\ MsgFrame

SetHeader ==
  \E f \in HeaderNames, v \in Values :
    /\ fields_' = set_header(fields_, capacity, f, v)
    /\ op' = "set_header"
    /\ arg' = <<f, v>>
    /\ UNCHANGED message_body_
    /\ MsgFrame

EraseHeader ==
  \E f \in HeaderNames :
    /\ fields_' = erase_header(fields_, f)
    /\ op' = "erase_header"
    /\ arg' = <<f>>
    /\ UNCHANGED message_body_
    /\ MsgFrame

ClearHeaders ==
  /\ fields_' = clear_headers(fields_)
  /\ op' = "clear_headers"
  /\ arg' = <<>>
  /\ UNCHANGED message_body_
  /\ MsgFrame

\* set_header_limit(limit): header_fields_.set_limit(limit)
HeaderLimit(limits) ==
  \E limit \in limits :
    /\ capacity' = set_limit(capacity, limit)
    /\ op' = "set_header_limit"
    /\ arg' = <<limit>>
    /\ val' = None
    /\ UNCHANGED <<fields_, message_body_, map_, limit_, ret, lret, lval, calls,
                   input, out>>

SetHeaderLimit == HeaderLimit(0..MaxLimit)

\* add_headers(data): header_fields_.add_fields(data)
AddHeaders(texts) ==
  \E data \in texts :
    /\ fields_' = add_fields(fields_, capacity, data)
    /\ op' = "add_headers"
    /\ arg' = <<data>>
    /\ UNCHANGED message_body_
    /\ MsgFrame

NextMessage ==
  \/ AddBody
  \/ ClearBody
  \/ AddHeader
  \/ AddHeaders(HeaderTexts)
  \/ SetHeader
  \/ EraseHeader
  \/ ClearHeaders
  \/ SetHeaderLimit

SpecMessage == InitMessage /\ [][NextMessage]_vars

(***************************************************************************)
(* unsigned (32 bit) values are kept as two 16 bit limbs <<high, low>>.    *)
(***************************************************************************)
Limb == 65536

Digits == <<"0","1","2","3","4","5","6","7","8","9">>
DigitValue(c) == (CHOOSE k \in 1..10 : Digits[k] = c) - 1

ToUnsigned(n) == <<(n \div Limb) % Limb, n % Limb>>

\* (u * 10 + d) mod 2^32
TimesTenPlus(u, d) ==
  LET low  == u[2] * 10 + d
      high == u[1] * 10 + (low \div Limb)
  IN <<high % Limb, low % Limb>>

\* the decimal value of a digit sequence, mod 2^32
RECURSIVE DecimalMod(_, _)
DecimalMod(digits, acc) ==
  IF digits = <<>> THEN acc
  ELSE DecimalMod(Tail(digits), TimesTenPlus(acc, DigitValue(Head(digits))))

RECURSIVE StripZeros(_)
StripZeros(digits) ==
  IF Len(digits) > 1 /\ Head(digits) = "0" THEN StripZeros(Tail(digits)) ELSE digits

\* a < b for digit sequences of equal length
RECURSIVE DigitsLess(_, _)
DigitsLess(a, b) ==
  IF a = <<>> THEN FALSE
  ELSE IF Head(a) # Head(b) THEN DigitValue(Head(a)) < DigitValue(Head(b))
  ELSE DigitsLess(Tail(a), Tail(b))

\* the number spelled by digits is greater than the one spelled by max
Exceeds(digits, max) ==
  LET d == StripZeros(digits)
  IN \/ Len(d) > Len(max)
     \/ Len(d) = Len(max) /\ DigitsLess(max, d)

ULONG_MAX == <<"1","8","4","4","6","7","4","4","0","7","3","7","0","9","5","5","1","6","1","5">>
INT_MAX   == <<"2","1","4","7","4","8","3","6","4","7">>

\* static_cast<unsigned>(std::stoul(digits)): out_of_range above ULONG_MAX
stoul(digits) ==
  IF Exceeds(digits, ULONG_MAX) THEN [thrown |-> TRUE, value |-> <<0, 0>>]
  ELSE [thrown |-> FALSE, value |-> DecimalMod(digits, <<0, 0>>)]

\* std::stoi(digits): out_of_range above INT_MAX
stoi(digits) ==
  IF Exceeds(digits, INT_MAX) THEN [thrown |-> TRUE, value |-> <<0, 0>>]
  ELSE [thrown |-> FALSE, value |-> DecimalMod(digits, <<0, 0>>)]

(***************************************************************************)
(* The start-line patterns (std::regex_match: the whole line must match).  *)
(* Each pattern has one way to match, so the matcher walks the line once;  *)
(* a position of 0 means "no match".                                       *)
(***************************************************************************)
GET     == <<"G","E","T">>
POST    == <<"P","O","S","T">>
PUT     == <<"P","U","T">>
DELETE  == <<"D","E","L","E","T","E">>
OPTIONS == <<"O","P","T","I","O","N","S">>
HEAD    == <<"H","E","A","D">>
TRACE   == <<"T","R","A","C","E">>
CONNECT == <<"C","O","N","N","E","C","T">>
PATCH   == <<"P","A","T","C","H">>
HTTP_   == <<"H","T","T","P","/">>

\* the literal lit at position i: the position after it, or 0
Lit(line, i, lit) ==
  IF i >= 1 /\ i + Len(lit) - 1 <= Len(line) /\ SubSeq(line, i, i + Len(lit) - 1) = lit
  THEN i + Len(lit) ELSE 0

\* \S* : the end of the run of non-whitespace from i
RECURSIVE NonSpaceRun(_, _)
NonSpaceRun(line, i) ==
  IF i >= 1 /\ i <= Len(line) /\ ~isspace(line[i]) THEN NonSpaceRun(line, i + 1) ELSE i

\* \d* : the end of the run of digits from i
RECURSIVE DigitRun(_, _)
DigitRun(line, i) ==
  IF i >= 1 /\ i <= Len(line) /\ isdigit(line[i]) THEN DigitRun(line, i + 1) ELSE i

\* [a-z A-Z]* : the end of the run of letters and spaces from i
RECURSIVE PhraseRun(_, _)
PhraseRun(line, i) ==
  IF i >= 1 /\ i <= Len(line) /\ (isalpha(line[i]) \/ line[i] = SP)
  THEN PhraseRun(line, i + 1) ELSE i

\* x+ : a run from i to e that must not be empty
OneOrMore(i, e) == IF e = i THEN 0 ELSE e

\* \S+, \d+, [a-z A-Z]+ and \d{3} at position i: the position after, or 0
NonSpacePlus(line, i) == OneOrMore(i, NonSpaceRun(line, i))
DigitPlus(line, i)    == OneOrMore(i, DigitRun(line, i))
PhrasePlus(line, i)   == OneOrMore(i, PhraseRun(line, i))
ThreeDigits(line, i)  == IF DigitRun(line, i) >= i + 3 THEN i + 3 ELSE 0

NoMatch ==
  [matched |-> FALSE, end |-> 0, m1 |-> <<>>, m2 |-> <<>>, m3 |-> <<>>, m4 |-> <<>>]

\* HTTP/(\d+)\.(\d+) at position i: the position after it, or 0
VersionAt(line, i) ==
  DigitPlus(line, Lit(line, DigitPlus(line, Lit(line, i, HTTP_)), <<".">>))

\* the two groups of a version that matched at position i
Major(line, i) == SubSeq(line, i + 5, DigitRun(line, i + 5) - 1)
Minor(line, i) ==
  SubSeq(line, DigitRun(line, i + 5) + 1, DigitRun(line, DigitRun(line, i + 5) + 1) - 1)

\* std::regex_match: the match must end where the line ends
Whole(line, m) == IF m.matched /\ m.end = Len(line) + 1 THEN m ELSE NoMatch

PatternMethods == <<GET, POST, PUT, DELETE, OPTIONS, HEAD, TRACE, CONNECT>>

\* (GET|POST|...|CONNECT) followed by a space at position s: the index of
\* the alternative, or 0
MethodAt(line, s) ==
  IF \E k \in 1..Len(PatternMethods) : Lit(line, s, PatternMethods[k] \o <<SP>>) # 0
  THEN CHOOSE k \in 1..Len(PatternMethods) : Lit(line, s, PatternMethods[k] \o <<SP>>) # 0
  ELSE 0

\* the groups, for method k at s, target from u to e and a version at b
\* that ends at v
RequestGroups(line, k, u, e, b, v) ==
  IF v = 0 THEN NoMatch
  ELSE [matched |-> TRUE, end |-> v, m1 |-> PatternMethods[k],
        m2 |-> SubSeq(line, u, e - 1), m3 |-> Major(line, b), m4 |-> Minor(line, b)]

RequestVersion(line, k, u, e, b) == RequestGroups(line, k, u, e, b, VersionAt(line, b))

RequestTarget(line, k, u, e) == RequestVersion(line, k, u, e, Lit(line, e, <<SP>>))

RequestMethod(line, s, k) ==
  IF k = 0 THEN NoMatch
  ELSE RequestTarget(line, k, s + Len(PatternMethods[k]) + 1,
                     NonSpacePlus(line, s + Len(PatternMethods[k]) + 1))

\* the longest prefix of line that the request pattern matches
RequestPrefix(line, s) == RequestMethod(line, s, MethodAt(line, s))

\* "\\s*(GET|POST|PUT|DELETE|OPTIONS|HEAD|TRACE|CONNECT) (\\S+) HTTP/(\\d+)\\.(\\d+)"
request_line_pattern(line) ==
  Whole(line, RequestPrefix(line, SkipSpace(line, 1)))

\* the groups, for a code from a to c and a phrase that ends at r
StatusGroups(line, a, c, r) ==
  IF r = 0 THEN NoMatch
  ELSE [matched |-> TRUE, end |-> r, m1 |-> Major(line, 1), m2 |-> Minor(line, 1),
        m3 |-> SubSeq(line, a, c - 1), m4 |-> <<>>]

StatusPhrase(line, a, c) == StatusGroups(line, a, c, PhrasePlus(line, Lit(line, c, <<SP>>)))

\* the position of the code: after the version and a space
CodeAt(line) == Lit(line, VersionAt(line, 1), <<SP>>)

\* as status_line_pattern, but with (\d+) for the code
status_line_pattern_any_code(line) ==
  Whole(line, StatusPhrase(line, CodeAt(line), DigitPlus(line, CodeAt(line))))

\* "HTTP/(\\d+)\\.(\\d+) (\\d{3}) [a-z A-Z]+"
status_line_pattern(line) ==
  Whole(line, StatusPhrase(line, CodeAt(line), ThreeDigits(line, CodeAt(line))))

(***************************************************************************)
(* Request_line::Request_line(T&&) and Status_line::Status_line(view).     *)
(* The outcome records what was stored and "rest", the caller's buffer     *)
(* after the call.                                                         *)
(***************************************************************************)
MinRequestLength  == 15
MinResponseLength == 16

\* the line and the length of its terminator: up to the first CRLF, else up
\* to the first LF; index = 0 when there is neither
ExtractLine(text) ==
  IF Find(text, CRLF, 1) # 0
  THEN [index |-> Find(text, CRLF, 1),
        line |-> SubSeq(text, 1, Find(text, CRLF, 1) - 1), ending |-> 2]
  ELSE IF Find(text, <<LF>>, 1) # 0
  THEN [index |-> Find(text, <<LF>>, 1),
        line |-> SubSeq(text, 1, Find(text, <<LF>>, 1) - 1), ending |-> 1]
  ELSE [index |-> 0, line |-> <<>>, ending |-> 0]

\* enum Method and the tables of method::str and method::code
INVALID == 65535
MethodStrings ==
  <<GET, POST, PUT, DELETE, OPTIONS, HEAD, TRACE, CONNECT, PATCH,
    <<"I","N","V","A","L","I","D">>>>

\* method::code(method): the enumerator of the string, or INVALID
method_code(method) ==
  IF \E k \in 1..9 : MethodStrings[k] = method
  THEN (CHOOSE k \in 1..9 : MethodStrings[k] = method) - 1
  ELSE INVALID

\* method::str(m): the string of the enumerator, "INVALID" out of range
method_str(m) ==
  IF m >= 0 /\ m < Len(MethodStrings) - 1 THEN MethodStrings[m + 1]
  ELSE MethodStrings[Len(MethodStrings)]

\* the version is converted, then the request is trimmed
RequestLineStored(request, x, m, maj, min) ==
  IF maj.thrown \/ min.thrown THEN Thrown("out_of_range", request)
  ELSE [status |-> "ok", method |-> method_str(method_code(m.m1)), uri |-> m.m2,
        major |-> maj.value, minor |-> min.value, code |-> Zero,
        rest |-> Substr(request, x.index + x.ending)]

\* a constructor that cuts the line off the buffer before it is matched
RequestLineMatched_trimmed(request, x, m) ==
  IF ~m.matched
  THEN Thrown("Request_line_error", Substr(request, x.index + x.ending))
  ELSE RequestLineStored(request, x, m, stoul(m.m3), stoul(m.m4))

RequestLineMatched(request, x, m) ==
  IF ~m.matched THEN Thrown("Request_line_error", request)
  ELSE RequestLineStored(request, x, m, stoul(m.m3), stoul(m.m4))

RequestLineExtracted(request, x) ==
  IF x.index = 0 THEN Thrown("Request_line_error", request)
  ELSE RequestLineMatched(request, x, request_line_pattern(x.line))

Request_line(request) ==
  IF request = <<>> \/ Len(request) < MinRequestLength
  THEN Thrown("Request_line_error", request)
  ELSE RequestLineExtracted(request, ExtractLine(request))

\* the view is passed by value: the caller's view is what it was
StatusLineStored(response, m, maj, min, code) ==
  IF maj.thrown \/ min.thrown \/ code.thrown THEN Thrown("out_of_range", response)
  ELSE [status |-> "ok", method |-> <<>>, uri |-> <<>>,
        major |-> maj.value, minor |-> min.value, code |-> code.value,
        rest |-> response]

StatusLineMatched(response, m) ==
  IF ~m.matched THEN Thrown("Status_line_error", response)
  ELSE StatusLineStored(response, m, stoi(m.m1), stoi(m.m2), stoi(m.m3))

StatusLineExtracted(response, x) ==
  IF x.index = 0 THEN Thrown("Status_line_error", response)
  ELSE StatusLineMatched(response, status_line_pattern(x.line))

Status_line(response) ==
  IF response = <<>> \/ Len(response) < MinResponseLength
  THEN Thrown("Status_line_error", response)
  ELSE StatusLineExtracted(response, ExtractLine(response))

(***************************************************************************)
(* SpecStartLine: the two start-line constructors applied to wire texts.   *)
(* The texts are assembled from parts, so that every part of the grammar   *)
(* is present, absent, misplaced or malformed in some text.                *)
(***************************************************************************)
LongDigits  == <<"1","8","4","4","6","7","4","4","0","7","3","7","0","9","5","5","1","6","1","6">>
IntOverflow == <<"2","1","4","7","4","8","3","6","4","8">>
WrapDigits  == <<"4","2","9","4","9","6","7","2","9","7">>
Nonsense    == <<"[","I","n","c","l","u","d","e","O","S","]",SP,"A",SP,"m","i","n","i","m","a","l">>
HostLine    == <<"H","o","s","t",":",SP,"h",CR,LF,CR,LF>>

Leads    == {<<>>, <<SP>>, <<LF>>, <<"x">>}
Methods  == {GET, CONNECT, PATCH, <<"g","e","t">>}
Gaps     == {<<SP>>, <<SP, SP>>}
Targets  == {<<"/">>, <<"/","a","?","b","=","c">>, <<>>}
Versions ==
  { <<"1",".","1">>, <<"2",".","0">>, <<"1","2",".","0","3">>, <<"1",".">>,
    <<"x",".","1">>, <<"1",".","1",SP>>, <<"1","1">>,
    LongDigits \o <<".","1">>, <<"1",".">> \o LongDigits,
    IntOverflow \o <<".","1">>, WrapDigits \o <<".","1">> }
Protocols == {HTTP_, <<"h","t","t","p","/">>}
Endings  == {CRLF, <<LF>>, <<CR>>, <<>>}
Rests    == {<<>>, HostLine}
Codes    == {<<"2","0","0">>, <<"9","9","9">>, <<"2","0">>, <<"2","0","0","0">>,
             <<"2","x","0">>}
Phrases  == {<<"O","K">>, <<"N","o","t",SP,"F","o","u","n","d">>, <<"O">>, <<>>,
             <<"O","K","1">>}

RequestTexts ==
  {l \o m \o g \o t \o <<SP>> \o p \o v \o e \o r :
     l \in Leads, m \in Methods, g \in Gaps, t \in Targets, p \in Protocols,
     v \in Versions, e \in Endings, r \in Rests}

StatusTexts ==
  {l \o p \o v \o g \o c \o <<SP>> \o ph \o e \o r :
     l \in {<<>>, <<SP>>}, p \in Protocols, v \in Versions, g \in Gaps,
     c \in Codes, ph \in Phrases, e \in Endings, r \in Rests}

OtherTexts ==
  { <<>>, Nonsense, Nonsense \o CRLF,
    <<"G","E","T",SP,"/",SP,LF>>,
    <<"H","T","T","P","/","2",".","0",SP,"3","0","1",LF>> }

InitStartLine ==
  /\ input \in RequestTexts \cup StatusTexts \cup OtherTexts
  /\ out = NoOutcome
  /\ op = "text"
  /\ arg = <<>>
  /\ fields_ = <<>>
  /\ capacity = 0
  /\ map_ = <<>>
  /\ limit_ = 0
  /\ message_body_ = <<>>
  /\ ret = FALSE
  /\ lret = FALSE
  /\ val = None
  /\ lval = None
  /\ calls = <<>>

StartLineFrame ==
  UNCHANGED <<fields_, capacity, map_, limit_, message_body_, ret, lret, val,
              lval, calls>>

\* what the constructor stored, and the caller's buffer after the call
Parsed(line) ==
  /\ out' = line
  /\ input' = line.rest

\* Request_line{input}: input is the caller's buffer, arg keeps the text
NewRequestLine ==
  /\ op = "text"
  /\ Parsed(Request_line(input))
  /\ arg' = <<input>>
  /\ op' = "Request_line"
  /\ StartLineFrame

NewStatusLine ==
  /\ op = "text"
  /\ Parsed(Status_line(input))
  /\ arg' = <<input>>
  /\ op' = "Status_line"
  /\ StartLineFrame

NextStartLine ==
  \/ NewRequestLine
  \/ NewStatusLine

SpecStartLine == InitStartLine /\ [][NextStartLine]_vars

(***************************************************************************)
(* Properties of the header store and of the Message                       *)
(***************************************************************************)
Min(a, b) == IF a < b THEN a ELSE b

\* C1: the number of stored fields never exceeds the limit that get_limit()
\* reports, in the vector-backed and in the list-backed Header, whatever
\* calls were made (set_limit below the current size included).
C1_SizeWithinLimit ==
  /\ size(fields_) <= get_limit(capacity)
  /\ Len(map_) <= limit_

\* C2: a Header of capacity N that received add_field calls with non-empty
\* names and values holds exactly the first N of them, in order; every call
\* made once N fields are stored returned false; to_string() shows the
\* retained fields only.
C2_FirstNRetained ==
  LET kept == SubSeq(calls, 1, Min(Len(calls), capacity))
  IN /\ fields_ = kept
     /\ (Len(calls) > capacity => ~ret)
     /\ to_string(fields_) =
          Concat([k \in 1..Len(kept) |-> Line(kept[k][1], kept[k][2])]) \o CRLF

C2_Witness ==
  /\ capacity >= 1
  /\ Len(calls) > capacity
  /\ Len(fields_) = capacity
  /\ ~ret

\* C3: no stored field has an empty name or an empty value, and add_field
\* with an empty name or an empty value returns false.
C3_NoEmptyStored ==
  /\ \A k \in 1..Len(fields_) : fields_[k][1] # <<>> /\ fields_[k][2] # <<>>
  /\ (op = "add_field" /\ (arg[1] = <<>> \/ arg[2] = <<>>) => ~ret)

\* C4: get_value never faults, and yields an empty result for an empty name
\* and for a name that matches no stored field.
C4_GetValueNeverFaults ==
  op = "get_value" =>
    /\ val # Fault
    /\ (~has_field(fields_, arg[1]) => val = <<>>)

\* C5: whenever the body is non-empty, a Content-Length header is present
\* and header_value("Content-Length") is the decimal length of the body.
C5_ContentLengthTracksBody ==
  message_body_ # <<>> =>
    /\ has_header(fields_, Content_Length)
    /\ header_value(fields_, Content_Length) = {to_string_num(Len(message_body_))}

\* C6: when clear_body() has returned, the body is empty and no
\* Content-Length header is left.
C6_ClearBodyRemovesLength ==
  op = "clear_body" =>
    /\ message_body_ = <<>>
    /\ ~has_header(fields_, Content_Length)

(***************************************************************************)
(* Request::Request(Ingress&&, Limit) (src/inc/request.hpp) and            *)
(* Response::Response(std::string, Limit) (src/inc/response.hpp).          *)
(* The outcome is [line, fields, body]: the start-line outcome, the header *)
(* fields and the body of the constructed message.                         *)
(***************************************************************************)
BlankLine == <<CR, LF, CR, LF>>

\* the constructed message
Built(line, msg) == [line |-> line, fields |-> msg.fields, body |-> msg.body]

\* the start-line constructor threw: no message results
NotBuilt(line) == [line |-> line, fields |-> <<>>, body |-> <<>>]

RequestBody(cap, line, hdrs, start_of_body) ==
  IF start_of_body # 0
  THEN Built(line, add_body(hdrs, cap, <<>>, Substr(line.rest, start_of_body + 4)))
  ELSE Built(line, [fields |-> hdrs, body |-> <<>>])

\* Request_line trims the caller's buffer; headers and body are read from
\* what is left of it
RequestHeaders(cap, line) ==
  IF line.status # "ok" THEN NotBuilt(line)
  ELSE RequestBody(cap, line, add_fields(<<>>, cap, line.rest),
                   Find(line.rest, BlankLine, 1))

Request(request, limit) == RequestHeaders(set_limit(0, limit), Request_line(request))

ResponseBody(cap, line, response_view, hdrs, crlf, lf) ==
  IF crlf # 0
  THEN Built(line, add_body(hdrs, cap, <<>>, Substr(response_view, crlf + 4)))
  ELSE IF lf # 0
  THEN Built(line, add_body(hdrs, cap, <<>>, Substr(response_view, lf + 2)))
  ELSE Built(line, [fields |-> hdrs, body |-> <<>>])

\* Status_line receives a copy of response_view: headers and body are read
\* from the view as it was before the call
ResponseHeaders(cap, line, response_view) ==
  IF line.status # "ok" THEN NotBuilt(line)
  ELSE ResponseBody(cap, line, response_view, add_fields(<<>>, cap, response_view),
                    Find(response_view, BlankLine, 1), Find(response_view, <<LF, LF>>, 1))

Response(response, limit) ==
  ResponseHeaders(set_limit(0, limit), Status_line(response), Status_line(response).rest)

(***************************************************************************)
(* Serialisation of the start lines and of the two messages.               *)
(***************************************************************************)
\* an unsigned value (two limbs) divided by ten, and the remainder
UnsignedDiv10(u) == <<u[1] \div 10, ((u[1] % 10) * Limb + u[2]) \div 10>>
UnsignedMod10(u) == ((u[1] % 10) * Limb + u[2]) % 10

\* operator << for an unsigned or int value: its decimal digits
RECURSIVE unsigned_to_string(_)
unsigned_to_string(u) ==
  IF u[1] = 0 /\ u[2] < 10 THEN <<Digits[u[2] + 1]>>
  ELSE Append(unsigned_to_string(UnsignedDiv10(u)), Digits[UnsignedMod10(u) + 1])

Version_to_string(major, minor) ==
  HTTP_ \o unsigned_to_string(major) \o <<".">> \o unsigned_to_string(minor)

\* the status codes of status_code_constants.hpp with the reason phrase of
\* each (the phrase is the constant's name in words)
StatusDescriptions ==
  <<
     <<100, <<"C","o","n","t","i","n","u","e">>>>,
     <<101, <<"S","w","i","t","c","h","i","n","g",SP,"P","r","o","t","o","c","o","l","s">>>>,
     <<102, <<"P","r","o","c","e","s","s","i","n","g">>>>,
     <<200, <<"O","K">>>>,
     <<201, <<"C","r","e","a","t","e","d">>>>,
     <<202, <<"A","c","c","e","p","t","e","d">>>>,
     <<203, <<"N","o","n","-","A","u","t","h","o","r","i","t","a","t","i","v","e",SP,"I","n","f","o","r","m","a","t","i","o","n">>>>,
     <<204, <<"N","o",SP,"C","o","n","t","e","n","t">>>>,
     <<205, <<"R","e","s","e","t",SP,"C","o","n","t","e","n","t">>>>,
     <<206, <<"P","a","r","t","i","a","l",SP,"C","o","n","t","e","n","t">>>>,
     <<207, <<"M","u","l","t","i","-","S","t","a","t","u","s">>>>,
     <<208, <<"A","l","r","e","a","d","y",SP,"R","e","p","o","r","t","e","d">>>>,
     <<226, <<"I","M",SP,"U","s","e","d">>>>,
     <<300, <<"M","u","l","t","i","p","l","e",SP,"C","h","o","i","c","e","s">>>>,
     <<301, <<"M","o","v","e","d",SP,"P","e","r","m","a","n","e","n","t","l","y">>>>,
     <<302, <<"F","o","u","n","d">>>>,
     <<303, <<"S","e","e",SP,"O","t","h","e","r">>>>,
     <<304, <<"N","o","t",SP,"M","o","d","i","f","i","e","d">>>>,
     <<305, <<"U","s","e",SP,"P","r","o","x","y">>>>,
     <<307, <<"T","e","m","p","o","r","a","r","y",SP,"R","e","d","i","r","e","c","t">>>>,
     <<308, <<"P","e","r","m","a","n","e","n","t",SP,"R","e","d","i","r","e","c","t">>>>,
     <<400, <<"B","a","d",SP,"R","e","q","u","e","s","t">>>>,
     <<401, <<"U","n","a","u","t","h","o","r","i","z","e","d">>>>,
     <<402, <<"P","a","y","m","e","n","t",SP,"R","e","q","u","i","r","e","d">>>>,
     <<403, <<"F","o","r","b","i","d","d","e","n">>>>,
     <<404, <<"N","o","t",SP,"F","o","u","n","d">>>>,
     <<405, <<"M","e","t","h","o","d",SP,"N","o","t",SP,"A","l","l","o","w","e","d">>>>,
     <<406, <<"N","o","t",SP,"A","c","c","e","p","t","a","b","l","e">>>>,
     <<407, <<"P","r","o","x","y",SP,"A","u","t","h","e","n","t","i","c","a","t","i","o","n",SP,"R","e","q","u","i","r","e","d">>>>,
     <<408, <<"R","e","q","u","e","s","t",SP,"T","i","m","e","o","u","t">>>>,
     <<409, <<"C","o","n","f","l","i","c","t">>>>,
     <<410, <<"G","o","n","e">>>>,
     <<411, <<"L","e","n","g","t","h",SP,"R","e","q","u","i","r","e","d">>>>,
     <<412, <<"P","r","e","c","o","n","d","i","t","i","o","n",SP,"F","a","i","l","e","d">>>>,
     <<413, <<"P","a","y","l","o","a","d",SP,"T","o","o",SP,"L","a","r","g","e">>>>,
     <<414, <<"U","R","I",SP,"T","o","o",SP,"L","o","n","g">>>>,
     <<415, <<"U","n","s","u","p","p","o","r","t","e","d",SP,"M","e","d","i","a",SP,"T","y","p","e">>>>,
     <<416, <<"R","a","n","g","e",SP,"N","o","t",SP,"S","a","t","i","s","f","i","a","b","l","e">>>>,
     <<417, <<"E","x","p","e","c","t","a","t","i","o","n",SP,"F","a","i","l","e","d">>>>,
     <<421, <<"M","i","s","d","i","r","e","c","t","e","d",SP,"R","e","q","u","e","s","t">>>>,
     <<422, <<"U","n","p","r","o","c","e","s","s","a","b","l","e",SP,"E","n","t","i","t","y">>>>,
     <<423, <<"L","o","c","k","e","d">>>>,
     <<424, <<"F","a","i","l","e","d",SP,"D","e","p","e","n","d","e","n","c","y">>>>,
     <<426, <<"U","p","g","r","a","d","e",SP,"R","e","q","u","i","r","e","d">>>>,
     <<428, <<"P","r","e","c","o","n","d","i","t","i","o","n",SP,"R","e","q","u","i","r","e","d">>>>,
     <<429, <<"T","o","o",SP,"M","a","n","y",SP,"R","e","q","u","e","s","t","s">>>>,
     <<431, <<"R","e","q","u","e","s","t",SP,"H","e","a","d","e","r",SP,"F","i","e","l","d","s",SP,"T","o","o",SP,"L","a","r","g","e">>>>,
     <<500, <<"I","n","t","e","r","n","a","l",SP,"S","e","r","v","e","r",SP,"E","r","r","o","r">>>>,
     <<501, <<"N","o","t",SP,"I","m","p","l","e","m","e","n","t","e","d">>>>,
     <<502, <<"B","a","d",SP,"G","a","t","e","w","a","y">>>>,
     <<503, <<"S","e","r","v","i","c","e",SP,"U","n","a","v","a","i","l","a","b","l","e">>>>,
     <<504, <<"G","a","t","e","w","a","y",SP,"T","i","m","e","o","u","t">>>>,
     <<505, <<"H","T","T","P",SP,"V","e","r","s","i","o","n",SP,"N","o","t",SP,"S","u","p","p","o","r","t","e","d">>>>,
     <<506, <<"V","a","r","i","a","n","t",SP,"A","l","s","o",SP,"N","e","g","o","t","i","a","t","e","s">>>>,
     <<507, <<"I","n","s","u","f","f","i","c","i","e","n","t",SP,"S","t","o","r","a","g","e">>>>,
     <<508, <<"L","o","o","p",SP,"D","e","t","e","c","t","e","d">>>>,
     <<510, <<"N","o","t",SP,"E","x","t","e","n","d","e","d">>>>,
     <<511, <<"N","e","t","w","o","r","k",SP,"A","u","t","h","e","n","t","i","c","a","t","i","o","n",SP,"R","e","q","u","i","r","e","d">>>>
  >>

\* code_description(code): the phrase of the code in the table, and the
\* phrase of 500 for a code that is not in it
code_description(code) ==
  IF code[1] = 0 /\ \E k \in 1..Len(StatusDescriptions) : StatusDescriptions[k][1] = code[2]
  THEN StatusDescriptions[CHOOSE k \in 1..Len(StatusDescriptions) :
                            StatusDescriptions[k][1] = code[2]][2]
  ELSE <<"I","n","t","e","r","n","a","l",SP,"S","e","r","v","e","r",SP,"E","r","r","o","r">>

\* line.method is method::str(method_); the URI prints the text it was
\* constructed from
Request_line_to_string(line) ==
  line.method \o <<SP>> \o line.uri \o <<SP>>
    \o Version_to_string(line.major, line.minor) \o CRLF

Status_line_to_string(line) ==
  Version_to_string(line.major, line.minor) \o <<SP>> \o unsigned_to_string(line.code)
    \o <<SP>> \o code_description(line.code) \o CRLF

Request_to_string(line, flds, body) ==
  Request_line_to_string(line) \o Message_to_string(flds, body)

Response_to_string(line, flds, body) ==
  Status_line_to_string(line) \o Message_to_string(flds, body)

(***************************************************************************)
(* SpecWire: wire texts (start line, header lines, blank line, body) given *)
(* to the two message constructors.  calls holds the header lines that     *)
(* were written into the text.                                             *)
(***************************************************************************)
MaxHeaders == 2      \* most header lines in a wire text

RequestStart == <<"G","E","T",SP,"/",SP,"H","T","T","P","/","1",".","1">>
StatusStart  == <<"H","T","T","P","/","1",".","1",SP,"2","0","0",SP,"O","K">>

StartLines ==
  { RequestStart \o CRLF, RequestStart \o <<LF>>,
    StatusStart \o CRLF, StatusStart \o <<LF>>,
    <<"G","E","T",SP,"/",SP,"H","T","T","P","/","1",CR,LF>> }

WireBodies == {<<>>, <<"x">>, <<"B",":",SP,"2">>}

HeaderLists ==
  UNION {[1..n -> Names \X Values] : n \in 0..MaxHeaders}

\* header lists, also with a Content-Length line of their own at the end
WireHeaderLists ==
  HeaderLists \cup
    {Append(hl, <<Content_Length, <<"1">>>>) :
       hl \in {h \in HeaderLists : Len(h) < MaxHeaders}}

WireText(start, hl, body) ==
  start \o Concat([k \in 1..Len(hl) |-> Line(hl[k][1], hl[k][2])]) \o CRLF \o body

InitWire ==
  /\ \E start \in StartLines, hl \in WireHeaderLists, body \in WireBodies,
        limit \in 1..MaxLimit :
       /\ input = WireText(start, hl, body)
       /\ calls = hl
       /\ arg = <<limit, body>>
  /\ out = NoOutcome
  /\ op = "wire"
  /\ fields_ = <<>>
  /\ capacity = 0
  /\ map_ = <<>>
  /\ limit_ = 0
  /\ message_body_ = <<>>
  /\ ret = FALSE
  /\ lret = FALSE
  /\ val = None
  /\ lval = None

WireFrame == UNCHANGED <<map_, limit_, ret, lret, val, lval, calls, input, arg>>

\* the members of the message that was constructed
Constructed(message) ==
  /\ out' = message.line
  /\ fields_' = message.fields
  /\ message_body_' = message.body

NewRequest ==
  /\ op = "wire"
  /\ Constructed(Request(input, arg[1]))
  /\ capacity' = set_limit(0, arg[1])
  /\ op' = "Request"
  /\ WireFrame

NewResponse ==
  /\ op = "wire"
  /\ Constructed(Response(input, arg[1]))
  /\ capacity' = set_limit(0, arg[1])
  /\ op' = "Response"
  /\ WireFrame

\* request.to_string(), for a request that was constructed
RequestToString ==
  /\ op = "Request"
  /\ out.status = "ok"
  /\ val' = Request_to_string(out, fields_, message_body_)
  /\ op' = "Request::to_string"
  /\ UNCHANGED <<fields_, capacity, map_, limit_, message_body_, arg, ret, lret,
                 lval, calls, input, out>>

ResponseToString ==
  /\ op = "Response"
  /\ out.status = "ok"
  /\ val' = Response_to_string(out, fields_, message_body_)
  /\ op' = "Response::to_string"
  /\ UNCHANGED <<fields_, capacity, map_, limit_, message_body_, arg, ret, lret,
                 lval, calls, input, out>>

NextWire ==
  \/ NewRequest
  \/ NewResponse
  \/ RequestToString
  \/ ResponseToString

SpecWire == InitWire /\ [][NextWire]_vars

(***************************************************************************)
(* Properties of the start-line constructors.  The grammar is written here *)
(* as the specification states it, independently of the matcher above.     *)
(***************************************************************************)
GrammarMethods == {GET, POST, PUT, DELETE, OPTIONS, HEAD, TRACE, CONNECT}

AllDigits(t) == t # <<>> /\ \A k \in 1..Len(t) : isdigit(t[k])

\* "HTTP/" digits "." digits
IsVersion(t) ==
  /\ Len(t) >= 8
  /\ SubSeq(t, 1, 5) = HTTP_
  /\ \E d \in 7..(Len(t) - 1) :
       /\ t[d] = "."
       /\ AllDigits(SubSeq(t, 6, d - 1))
       /\ AllDigits(SubSeq(t, d + 1, Len(t)))

\* METHOD SP REQUEST-TARGET SP "HTTP/" digits "." digits
IsRequestLine(line) ==
  \E a \in 1..Len(line) :
    /\ line[a] = SP
    /\ SubSeq(line, 1, a - 1) \in GrammarMethods
    /\ \E b \in (a + 2)..Len(line) :
         /\ line[b] = SP
         /\ \A k \in (a + 1)..(b - 1) : ~isspace(line[k])
         /\ IsVersion(SubSeq(line, b + 1, Len(line)))

\* "HTTP/" digits "." digits SP 3DIGIT SP one or more letters or spaces
IsStatusLine(line) ==
  \E a \in 1..Len(line) :
    /\ line[a] = SP
    /\ IsVersion(SubSeq(line, 1, a - 1))
    /\ Len(line) >= a + 5
    /\ AllDigits(SubSeq(line, a + 1, a + 3))
    /\ line[a + 4] = SP
    /\ \A k \in (a + 5)..Len(line) : isalpha(line[k]) \/ line[k] = SP

HasLF(text) == \E k \in 1..Len(text) : text[k] = LF

\* the text before the first LF, a CR just before that LF not counted
FirstLine(text) ==
  LET n == CHOOSE k \in 1..Len(text) :
             text[k] = LF /\ \A j \in 1..(k - 1) : text[j] # LF
  IN IF n > 1 /\ text[n - 1] = CR THEN SubSeq(text, 1, n - 2)
     ELSE SubSeq(text, 1, n - 1)

HasCRLF(text) == \E k \in 1..(Len(text) - 1) : text[k] = CR /\ text[k + 1] = LF

\* the text before the first CRLF, or before the first LF when the text has
\* no CRLF
LineBeforeTerminator(text) ==
  IF HasCRLF(text)
  THEN LET n == CHOOSE k \in 1..(Len(text) - 1) :
                  /\ text[k] = CR /\ text[k + 1] = LF
                  /\ \A j \in 1..(k - 1) : ~(text[j] = CR /\ text[j + 1] = LF)
       IN SubSeq(text, 1, n - 1)
  ELSE LET n == CHOOSE k \in 1..Len(text) :
                  text[k] = LF /\ \A j \in 1..(k - 1) : text[j] # LF
       IN SubSeq(text, 1, n - 1)

\* the number a short digit sequence spells
RECURSIVE NatValue(_)
NatValue(t) ==
  IF t = <<>> THEN 0 ELSE NatValue(SubSeq(t, 1, Len(t) - 1)) * 10 + DigitValue(t[Len(t)])

\* the tokens of a Status-Line
StatusTokens(line) ==
  LET a == CHOOSE k \in 1..Len(line) : line[k] = SP /\ \A j \in 1..(k - 1) : line[j] # SP
      d == CHOOSE k \in 1..a : line[k] = "."
  IN [major |-> SubSeq(line, 6, d - 1), minor |-> SubSeq(line, d + 1, a - 1),
      code |-> SubSeq(line, a + 1, a + 3)]

\* C7: Request_line construction succeeds only if the first line is exactly
\* METHOD SP REQUEST-TARGET SP HTTP/digits.digits with nothing before or
\* after it; every other text raises Request_line_error.
C7_ExactRequestLineOnly ==
  op = "Request_line" =>
    LET good == HasLF(arg[1]) /\ IsRequestLine(FirstLine(arg[1]))
    IN /\ (out.status = "ok" => good)
       /\ (~good => out.status = "Request_line_error")

\* C8: Status_line construction succeeds only if the first line is exactly
\* HTTP/digits.digits SP 3DIGIT SP letters-or-spaces; every other text
\* raises Status_line_error; on success the stored version and code are the
\* numbers of the matched tokens.
C8_ExactStatusLineOnly ==
  op = "Status_line" =>
    LET good == HasLF(arg[1]) /\ IsStatusLine(FirstLine(arg[1]))
    IN /\ (out.status = "ok" =>
             /\ good
             /\ out.major = ToUnsigned(NatValue(StatusTokens(FirstLine(arg[1])).major))
             /\ out.minor = ToUnsigned(NatValue(StatusTokens(FirstLine(arg[1])).minor))
             /\ out.code  = ToUnsigned(NatValue(StatusTokens(FirstLine(arg[1])).code)))
       /\ (~good => out.status = "Status_line_error")

C8_Witness ==
  /\ op = "Status_line"
  /\ out.status = "ok"
  /\ out.major = ToUnsigned(12)
  /\ out.minor = ToUnsigned(3)
  /\ out.code = ToUnsigned(999)

\* C9: start-line construction either succeeds or fails with the dedicated
\* error of its class, for every text.
C9_OnlyStartLineErrors ==
  /\ (op = "Request_line" => out.status \in {"ok", "Request_line_error"})
  /\ (op = "Status_line" => out.status \in {"ok", "Status_line_error"})

\* C10: after a successful start-line parse, header parsing starts right
\* after the start line's terminator, in Request and in Response
\* construction: every header line written after the start line, up to the
\* capacity, is a field of the constructed message, in order.
C10_HeadersFollowStartLine ==
  (op \in {"Request", "Response"} /\ out.status = "ok") =>
    /\ Len(fields_) >= Min(Len(calls), capacity)
    /\ \A k \in 1..Min(Len(calls), capacity) : fields_[k] = calls[k]

(***************************************************************************)
(* SpecBulk: Header::add_fields applied to a header block: header lines,   *)
(* the blank line, body text.  calls holds the header lines written into   *)
(* the text; arg holds the fields stored before the call and the body.     *)
(***************************************************************************)
PriorFields == {<<>>, <<<<<<"A">>, <<"1">>>>>>}

HeaderBlock(hl, body) ==
  Concat([k \in 1..Len(hl) |-> Line(hl[k][1], hl[k][2])]) \o CRLF \o body

InitBulk ==
  /\ \E hl \in HeaderLists, body \in WireBodies, limit \in 1..MaxLimit,
        prior \in PriorFields :
       /\ input = HeaderBlock(hl, body)
       /\ calls = hl
       /\ arg = <<prior, body>>
       /\ fields_ = prior
       /\ capacity = set_limit(0, limit)
  /\ op = "block"
  /\ out = NoOutcome
  /\ map_ = <<>>
  /\ limit_ = 0
  /\ message_body_ = <<>>
  /\ ret = FALSE
  /\ lret = FALSE
  /\ val = None
  /\ lval = None

\* header.add_fields(input)
AddFieldsBlock ==
  /\ op = "block"
  /\ fields_' = add_fields(fields_, capacity, input)
  /\ op' = "add_fields"
  /\ UNCHANGED <<capacity, map_, limit_, message_body_, arg, ret, lret, val, lval,
                 calls, input, out>>

NextBulk == AddFieldsBlock

SpecBulk == InitBulk /\ [][NextBulk]_vars

\* C11: bulk parsing stops at the blank line that ends the header block: no
\* field is created from the text after the blank line, so the call stores
\* at most the header lines written before it, in order.
C11_StopsAtBlankLine ==
  op = "add_fields" =>
    /\ Len(fields_) <= Len(arg[1]) + Len(calls)
    /\ \A k \in 1..(Len(fields_) - Len(arg[1])) : fields_[Len(arg[1]) + k] = calls[k]

(***************************************************************************)
(* SpecFold: add_fields applied to one header line whose value is          *)
(* continued on following lines (obsolete line folding).  calls holds the  *)
(* parts of the value, arg the folds written between them.                 *)
(***************************************************************************)
MaxFolds == 2        \* most continuation lines of one value

FoldTerminators == {CRLF, <<LF>>}
FoldWhitespace  == {<<SP>>, <<SP, SP>>, <<SP, SP, SP>>, <<HT>>, <<HT, SP>>}
Folds           == {t \o w : t \in FoldTerminators, w \in FoldWhitespace}
FoldParts       == <<<<"a", ",">>, <<"b", ",">>, <<"c">>, <<"d">>>>
FoldName        == <<"A", "c", "c", "e", "p", "t">>

\* part 1, fold 1, part 2, ..., fold n, part n+1
RECURSIVE Folded(_, _)
Folded(parts, folds) ==
  IF folds = <<>> THEN Head(parts)
  ELSE Head(parts) \o Head(folds) \o Folded(Tail(parts), Tail(folds))

\* the parts joined with one space each
RECURSIVE Joined(_)
Joined(parts) ==
  IF Len(parts) = 1 THEN Head(parts)
  ELSE Head(parts) \o <<SP>> \o Joined(Tail(parts))

InitFold ==
  /\ \E n \in 1..MaxFolds, limit \in 1..MaxLimit :
       \E folds \in [1..n -> Folds] :
         /\ calls = SubSeq(FoldParts, 1, n + 1)
         /\ arg = folds
         /\ input = FoldName \o <<":", SP>> \o Folded(SubSeq(FoldParts, 1, n + 1), folds)
                      \o CRLF \o CRLF
         /\ capacity = set_limit(0, limit)
  /\ fields_ = <<>>
  /\ op = "block"
  /\ out = NoOutcome
  /\ map_ = <<>>
  /\ limit_ = 0
  /\ message_body_ = <<>>
  /\ ret = FALSE
  /\ lret = FALSE
  /\ val = None
  /\ lval = None

SpecFold == InitFold /\ [][NextBulk]_vars

\* C12: a value continued over folds (a line terminator followed by one or
\* more whitespace characters) is stored as one field whose value is the
\* parts joined with exactly one space per fold.
C12_FoldJoinsWithOneSpace ==
  op = "add_fields" => fields_ = <<<<FoldName, Joined(calls)>>>>

(***************************************************************************)
(* SpecRoundTrip: a Header(limit) built by add_field calls with non-empty  *)
(* names and values, never beyond its capacity; its to_string() output is  *)
(* parsed into a fresh Header of the same capacity.  input holds the text, *)
(* calls the fields of the fresh Header.                                   *)
(***************************************************************************)
RoundTripNames  == {<<"A">>, <<"B">>}
RoundTripValues ==
  { <<"1">>, <<"t", "/", "h">>, <<SP, "1">>, <<"1", CR, LF, "B", ":", SP, "2">> }

InitRoundTrip ==
  /\ \E limit \in 1..MaxLimit :
       /\ capacity = set_limit(0, limit)
       /\ arg = <<limit>>
  /\ fields_ = <<>>
  /\ calls = <<>>
  /\ input = <<>>
  /\ op = "Header"
  /\ out = NoOutcome
  /\ map_ = <<>>
  /\ limit_ = 0
  /\ message_body_ = <<>>
  /\ ret = FALSE
  /\ lret = FALSE
  /\ val = None
  /\ lval = None

\* header.add_field(f, v), while the Header is below its capacity
RoundTripAdd ==
  \E f \in RoundTripNames, v \in RoundTripValues :
    /\ op # "add_fields"
    /\ size(fields_) < capacity
    /\ fields_' = add_field(fields_, capacity, f, v).fields
    /\ ret' = add_field(fields_, capacity, f, v).ret
    /\ arg' = <<f, v>>
    /\ op' = "add_field"
    /\ UNCHANGED <<capacity, map_, limit_, message_body_, lret, val, lval, calls,
                   input, out>>

\* Header fresh{capacity}; fresh.add_fields(header.to_string())
RoundTripParse ==
  /\ op # "add_fields"
  /\ input' = to_string(fields_)
  /\ calls' = add_fields(<<>>, capacity, to_string(fields_))
  /\ op' = "add_fields"
  /\ UNCHANGED <<fields_, capacity, map_, limit_, message_body_, arg, ret, lret,
                 val, lval, out>>

NextRoundTrip ==
  \/ RoundTripAdd
  \/ RoundTripParse

SpecRoundTrip == InitRoundTrip /\ [][NextRoundTrip]_vars

\* C13: parsing the to_string() output of a Header built by add_field calls
\* (non-empty names and values, within capacity) into a fresh Header of the
\* same capacity reproduces the same ordered sequence of fields.
C13_HeaderRoundTrip ==
  op = "add_fields" => calls = fields_

\* C14: for a wire text accepted by the Request or Response constructor
\* (CRLF start line, header lines that fit the capacity with room for one
\* more, blank line, optional body, possibly with a Content-Length line of
\* its own), to_string() of the constructed message is the input text.
C14_MessageRoundTrip ==
  ( /\ op \in {"Request::to_string", "Response::to_string"}
    /\ Lit(input, 1, RequestStart \o CRLF) # 0 \/ Lit(input, 1, StatusStart \o CRLF) # 0
    /\ Len(calls) < capacity ) => val = input

(***************************************************************************)
(* Properties of the calls on a Header, as relations between the state     *)
(* before and after a call (SpecHeader).                                   *)
(***************************************************************************)
\* name n matches the stored name f, ignoring ASCII case
SameName(n, f) == n # <<>> /\ string_to_lower_case(n) = string_to_lower_case(f)

\* the fields of flds whose name does not match n, in their order
RECURSIVE Others(_, _)
Others(flds, n) ==
  IF flds = <<>> THEN <<>>
  ELSE IF SameName(n, Head(flds)[1]) THEN Others(Tail(flds), n)
  ELSE <<Head(flds)>> \o Others(Tail(flds), n)

\* C15: erase(name) removes all fields whose name matches ignoring case:
\* afterwards has_field(name) is false and the fields with other names are
\* left in place in their order.
C15_EraseRemovesAll ==
  [][ op' = "erase" =>
        /\ ~has_field(fields_', arg'[1])
        /\ fields_' = Others(fields_, arg'[1]) ]_vars

\* the position of the first field of flds whose name matches n, 0 if none
FirstMatch(flds, n) ==
  IF \E k \in 1..Len(flds) : SameName(n, flds[k][1])
  THEN CHOOSE k \in 1..Len(flds) :
         /\ SameName(n, flds[k][1])
         /\ \A j \in 1..(k - 1) : ~SameName(n, flds[j][1])
  ELSE 0

\* C16: set_field(name, value) with non-empty arguments overwrites the
\* value of the first field that matches name, in place, and returns true,
\* also at capacity: size, order, the stored spelling of the name and all
\* other fields stay; with no match it appends if below capacity and else
\* returns false and changes nothing.
C16_SetFieldInPlace ==
  [][ (op' = "set_field" /\ arg'[1] # <<>> /\ arg'[2] # <<>>) =>
        IF FirstMatch(fields_, arg'[1]) # 0
        THEN /\ ret'
             /\ Len(fields_') = Len(fields_)
             /\ \A k \in 1..Len(fields_) :
                  fields_'[k] = IF k = FirstMatch(fields_, arg'[1])
                                THEN <<fields_[k][1], arg'[2]>> ELSE fields_[k]
        ELSE IF Len(fields_) < capacity
        THEN ret' /\ fields_' = Append(fields_, <<arg'[1], arg'[2]>>)
        ELSE ~ret' /\ fields_' = fields_ ]_vars

\* a full Header of two fields whose first field, stored as "A", was given
\* a new value through the name "a"
C16_Witness ==
  /\ op = "set_field"
  /\ ret
  /\ arg[1] = <<"a">>
  /\ capacity = 2
  /\ Len(fields_) = 2
  /\ fields_[1] = <<<<"A">>, arg[2]>>
  /\ fields_[2][2] # arg[2]

\* the text that has, for each field in order, name ": " value CRLF
RECURSIVE FieldLines(_)
FieldLines(flds) ==
  IF flds = <<>> THEN <<>>
  ELSE Head(flds)[1] \o <<":", SP>> \o Head(flds)[2] \o <<CR, LF>> \o FieldLines(Tail(flds))

\* C17: lookup ignores ASCII case and takes the first match: has_field(n)
\* is true iff some stored name equals n ignoring case, get_value(n) of a
\* stored name is the value of the earliest such field, an add_field that
\* succeeds appends the pair and leaves the fields before it as they were
\* (also when the name is already present), and to_string() shows the
\* names as they were stored.
C17_LookupFirstMatch ==
  /\ [](op = "has_field" =>
          (ret <=> \E k \in 1..Len(fields_) : SameName(arg[1], fields_[k][1])))
  /\ []((op = "get_value" /\ FirstMatch(fields_, arg[1]) # 0) =>
          val = fields_[FirstMatch(fields_, arg[1])][2])
  /\ [][(op' = "add_field" /\ ret') =>
          fields_' = Append(fields_, <<arg'[1], arg'[2]>>)]_vars
  /\ [](op = "to_string" => Lit(val, 1, FieldLines(fields_)) # 0)

\* get_value("a") on the fields A: 1, a: 2 gave the value of the first
C17_Witness ==
  /\ op = "get_value"
  /\ arg[1] = <<"a">>
  /\ fields_ = <<<<<<"A">>, <<"1">>>>, <<<<"a">>, <<"2">>>>>>
  /\ val = <<"1">>

\* C18: Header::to_string() is, for each stored field in insertion order,
\* name ": " value CRLF, and then one blank line CRLF; with zero fields it
\* is exactly CRLF.
C18_ToStringLayout ==
  op = "to_string" =>
    /\ val = FieldLines(fields_) \o <<CR, LF>>
    /\ (fields_ = <<>> => val = <<CR, LF>>)

\* to_string() of a Header that holds no field
C18_Witness ==
  /\ op = "to_string"
  /\ fields_ = <<>>
  /\ val = <<CR, LF>>

(***************************************************************************)
(* SpecDefault: a default-constructed Message, a Response(code, version),  *)
(* a default-constructed Request or a Request parsed from a start line,    *)
(* under header and body calls, to_string() and reset().  out holds the    *)
(* start line; a Message has none.                                         *)
(***************************************************************************)
DefaultLimit == 25
DefaultCodes == {200, 404}
DefaultVersions == {<<1, 1>>, <<2, 0>>}

\* status_line_{version, code}; Version{} is 1.1 and the default code is OK
DefaultStatusLine(code, version) ==
  [status |-> "ok", method |-> <<>>, uri |-> <<>>, major |-> <<0, version[1]>>,
   minor |-> <<0, version[2]>>, code |-> <<0, code>>, rest |-> <<>>]

\* the members of a default-constructed Request_line
DefaultRequestLine ==
  [status |-> "ok", method |-> GET, uri |-> <<"/">>, major |-> <<0, 1>>,
   minor |-> <<0, 1>>, code |-> Zero, rest |-> <<>>]

\* a request without headers and body, and the Request_line built from it
PostText ==
  POST \o <<SP, "/", "q", SP>> \o HTTP_ \o <<"2", ".", "0">> \o CRLF \o CRLF

ParsedRequestLine == [Request(PostText, DefaultLimit).line EXCEPT !.rest = <<>>]

\* Message::reset, Response::reset and Request::reset
Message_reset(flds, body) == clear_body(clear_headers(flds), body)

Response_reset(line, flds, body) ==
  Built([line EXCEPT !.code = <<0, 200>>], Message_reset(flds, body))

Request_reset(line, flds, body) ==
  Built([line EXCEPT !.method = GET, !.uri = <<"/">>,
                     !.major = <<0, 1>>, !.minor = <<0, 1>>],
        Message_reset(flds, body))

IsRequest == out.status = "ok" /\ out.method # <<>>
IsResponse == out.status = "ok" /\ out.method = <<>>

InitDefault ==
  /\ \/ /\ op = "Message"
        /\ out = NoOutcome
     \/ /\ op = "Response"
        /\ \E code \in DefaultCodes, version \in DefaultVersions :
             out = DefaultStatusLine(code, version)
     \/ /\ op = "Request"
        /\ out \in {DefaultRequestLine, ParsedRequestLine}
  /\ capacity = set_limit(0, DefaultLimit)
  /\ fields_ = <<>>
  /\ message_body_ = <<>>
  /\ map_ = <<>>
  /\ limit_ = 0
  /\ arg = <<>>
  /\ ret = FALSE
  /\ lret = FALSE
  /\ val = None
  /\ lval = None
  /\ calls = <<>>
  /\ input = <<>>

DefaultAddHeader == Len(fields_) < MaxHeaders /\ AddHeader

DefaultAddBody == Len(fields_) < MaxHeaders /\ AddBody

\* header blocks of one line and of two lines
DefaultBlocks ==
  { Line(<<"A">>, <<"1">>) \o CRLF,
    Line(<<"A">>, <<"2">>) \o Line(<<"A">>, <<"1">>) \o CRLF }

DefaultAddHeaders == AddHeaders(DefaultBlocks) /\ Len(fields_') <= MaxHeaders

\* set_header_limit below and above the default capacity
DefaultSetHeaderLimit == HeaderLimit({0, DefaultLimit + 1})

\* Response::set_status_code(code): status_line_.set_code(code)
SetStatusCode ==
  \E code \in DefaultCodes :
    /\ IsResponse
    /\ out' = [out EXCEPT !.code = <<0, code>>]
    /\ op' = "set_status_code"
    /\ arg' = <<code>>
    /\ UNCHANGED <<fields_, message_body_>>
    /\ MsgFrameButOut

\* Request::set_method, Request::set_uri and Request::set_version on a built
\* Request: each forwards to the setter of request_line_
RequestLineSetter(line, name) ==
  /\ IsRequest
  /\ out' = line
  /\ op' = name
  /\ val' = None
  /\ UNCHANGED <<fields_, capacity, map_, limit_, message_body_, arg, ret, lret,
                 lval, calls, input>>

RequestSetMethod ==
  \E m \in {method_code(GET), method_code(POST)} :
    RequestLineSetter([out EXCEPT !.method = method_str(m)], "Request::set_method")

RequestSetUri ==
  \E uri \in {<<"/">>, <<"/", "q">>} :
    RequestLineSetter([out EXCEPT !.uri = uri], "Request::set_uri")

RequestSetVersion ==
  \E version \in DefaultVersions :
    RequestLineSetter([out EXCEPT !.major = ToUnsigned(version[1]),
                                  !.minor = ToUnsigned(version[2])],
                      "Request::set_version")

MessageToString ==
  /\ out.status = "none"
  /\ val' = Message_to_string(fields_, message_body_)
  /\ op' = "Message::to_string"
  /\ arg' = <<>>
  /\ UNCHANGED <<fields_, capacity, map_, limit_, message_body_, ret, lret,
                 lval, calls, input, out>>

DefaultResponseToString ==
  /\ IsResponse
  /\ val' = Response_to_string(out, fields_, message_body_)
  /\ op' = "Response::to_string"
  /\ arg' = <<>>
  /\ UNCHANGED <<fields_, capacity, map_, limit_, message_body_, ret, lret,
                 lval, calls, input, out>>

DefaultRequestToString ==
  /\ IsRequest
  /\ val' = Request_to_string(out, fields_, message_body_)
  /\ op' = "Request::to_string"
  /\ arg' = <<>>
  /\ UNCHANGED <<fields_, capacity, map_, limit_, message_body_, ret, lret,
                 lval, calls, input, out>>

MessageReset ==
  /\ out.status = "none"
  /\ fields_' = Message_reset(fields_, message_body_).fields
  /\ message_body_' = Message_reset(fields_, message_body_).body
  /\ op' = "Message::reset"
  /\ arg' = <<>>
  /\ UNCHANGED out
  /\ MsgFrame

ResponseReset ==
  /\ IsResponse
  /\ Constructed(Response_reset(out, fields_, message_body_))
  /\ op' = "Response::reset"
  /\ arg' = <<>>
  /\ val' = None
  /\ UNCHANGED <<capacity, map_, limit_, ret, lret, lval, calls, input>>

RequestReset ==
  /\ IsRequest
  /\ Constructed(Request_reset(out, fields_, message_body_))
  /\ op' = "Request::reset"
  /\ arg' = <<>>
  /\ val' = None
  /\ UNCHANGED <<capacity, map_, limit_, ret, lret, lval, calls, input>>

NextDefault ==
  \/ DefaultAddHeader
  \/ DefaultAddHeaders
  \/ DefaultAddBody
  \/ DefaultSetHeaderLimit
  \/ SetStatusCode
  \/ RequestSetMethod
  \/ RequestSetUri
  \/ RequestSetVersion
  \/ EraseHeader
  \/ ClearHeaders
  \/ ClearBody
  \/ MessageToString
  \/ DefaultResponseToString
  \/ DefaultRequestToString
  \/ MessageReset
  \/ ResponseReset
  \/ RequestReset

SpecDefault == InitDefault /\ [][NextDefault]_vars

\* C19: a message without header fields and without a body serialises
\* without a blank line: a Message to the empty string, a Response to
\* exactly its status line (HTTP/1.1 200 OK CRLF for the default one).
C19_NoBlankLine ==
  (fields_ = <<>> /\ message_body_ = <<>>) =>
    /\ op = "Message::to_string" => val = <<>>
    /\ op = "Response::to_string" => val = Status_line_to_string(out)
    /\ (op = "Response::to_string" /\ out = DefaultStatusLine(200, <<1, 1>>)) =>
         val = StatusStart \o CRLF

(***************************************************************************)
(* SpecNoColon: add_fields on texts that hold no ':' at all, for Headers   *)
(* that already hold zero, one or two fields.                              *)
(***************************************************************************)
MaxTextLen == 3
NoColonChars == {"a", SP, HT, CR, LF}
NoColonTexts == UNION {[1..n -> NoColonChars] : n \in 0..MaxTextLen}
NoColonPriors ==
  PriorFields \cup {<<<<<<"A">>, <<"1">>>>, <<<<"a">>, <<"2">>>>>>}

InitNoColon ==
  /\ \E data \in NoColonTexts, prior \in NoColonPriors, limit \in 0..MaxLimit :
       /\ Len(prior) <= limit
       /\ input = data
       /\ arg = <<prior, <<>>>>
       /\ fields_ = prior
       /\ capacity = set_limit(0, limit)
  /\ op = "block"
  /\ calls = <<>>
  /\ out = NoOutcome
  /\ map_ = <<>>
  /\ limit_ = 0
  /\ message_body_ = <<>>
  /\ ret = FALSE
  /\ lret = FALSE
  /\ val = None
  /\ lval = None

SpecNoColon == InitNoColon /\ [][NextBulk]_vars

\* C20: add_fields on a text without any ':' leaves the stored field
\* sequence exactly as it was, whatever the Header held before; an empty
\* Header stays empty.
C20_NoColonNoOp ==
  (op = "add_fields" /\ \A k \in 1..Len(input) : input[k] # ":") =>
    /\ fields_ = arg[1]
    /\ (arg[1] = <<>> => is_empty(fields_))

\* a text of words and no ':' was given to an empty Header with room
C20_Witness ==
  /\ op = "add_fields"
  /\ input = <<"a", SP, "a">>
  /\ arg[1] = <<>>
  /\ capacity >= 1
  /\ is_empty(fields_)

(***************************************************************************)
(* SpecAnyText: add_fields on arbitrary short texts (with and without a    *)
(* well-formed line in front), for Headers that already hold fields.       *)
(***************************************************************************)
AnyChars == {"a", ":", SP, CR, LF}
AnyTexts == UNION {[1..n -> AnyChars] : n \in 0..MaxTextLen}
LedTexts == {Line(<<"B">>, <<"2">>) \o t : t \in AnyTexts}

InitAnyText ==
  /\ \E data \in AnyTexts \cup LedTexts, prior \in NoColonPriors,
        limit \in 0..MaxLimit :
       /\ Len(prior) <= limit
       /\ input = data
       /\ arg = <<prior, <<>>>>
       /\ fields_ = prior
       /\ capacity = set_limit(0, limit)
  /\ op = "block"
  /\ calls = <<>>
  /\ out = NoOutcome
  /\ map_ = <<>>
  /\ limit_ = 0
  /\ message_body_ = <<>>
  /\ ret = FALSE
  /\ lret = FALSE
  /\ val = None
  /\ lval = None

SpecAnyText == InitAnyText /\ [][NextBulk]_vars

\* C21: bulk parsing never signals an error and only appends: whatever the
\* text, the fields stored before the call are the first fields after it,
\* unchanged and in the same order.
C21_AppendOnly ==
  op = "add_fields" =>
    /\ Len(fields_) >= Len(arg[1])
    /\ SubSeq(fields_, 1, Len(arg[1])) = arg[1]
    /\ Len(fields_) <= capacity

\* a text naming a field that is already stored (in another case) was parsed
C21_Witness ==
  /\ op = "add_fields"
  /\ input = <<"a", ":", "a">>
  /\ arg[1] = <<<<<<"A">>, <<"1">>>>>>
  /\ fields_ = <<<<<<"A">>, <<"1">>>>, <<<<"a">>, <<"a">>>>>>

\* the position of the first LF of a text that has one
FirstLF(text) ==
  CHOOSE k \in 1..Len(text) : text[k] = LF /\ \A j \in 1..(k - 1) : text[j] # LF

\* C22: when the first line (the text before the first LF, a CR just before
\* it not counted) is a Request-Line, construction succeeds for a CRLF and
\* for a bare LF terminator, also with CRLF later in the text, and the
\* caller's buffer then begins right after that terminator.
C22_TerminatorTolerance ==
  (op = "Request_line" /\ HasLF(arg[1]) /\ IsRequestLine(FirstLine(arg[1]))) =>
    /\ out.status = "ok"
    /\ input = SubSeq(arg[1], FirstLF(arg[1]) + 1, Len(arg[1]))

\* the status codes the library defines
StatusCodes ==
  {100, 101, 102} \cup (200..208) \cup {226} \cup (300..305) \cup {307, 308}
    \cup (400..417) \cup (421..424) \cup {426, 428, 429, 431}
    \cup (500..508) \cup {510, 511}

\* C23: after a successful start-line parse the stored method is one of the
\* enumerated methods, never INVALID, and the stored status code is one of
\* the codes the library defines.
C23_ClosedSets ==
  /\ (op = "Request_line" /\ out.status = "ok") =>
       \E k \in 1..9 : out.method = MethodStrings[k]
  /\ (op = "Status_line" /\ out.status = "ok") =>
       \E c \in StatusCodes : out.code = ToUnsigned(c)

\* C24: the minimum-length test of each start-line parser is the length of
\* the smallest valid form: a text whose first line matches the grammar and
\* ends with LF or CRLF is never below the threshold, and every text below
\* the threshold raises the parser's malformed-start-line error.
C24_MinimumLength ==
  /\ (op = "Request_line" /\ HasLF(arg[1]) /\ IsRequestLine(FirstLine(arg[1]))) =>
       Len(arg[1]) >= MinRequestLength
  /\ (op = "Status_line" /\ HasLF(arg[1]) /\ IsStatusLine(FirstLine(arg[1]))) =>
       Len(arg[1]) >= MinResponseLength
  /\ (op = "Request_line" /\ Len(arg[1]) < MinRequestLength) =>
       out.status = "Request_line_error"
  /\ (op = "Status_line" /\ Len(arg[1]) < MinResponseLength) =>
       out.status = "Status_line_error"

(***************************************************************************)
(* Request::get_value and the two lookups built on it.                     *)
(***************************************************************************)
\* data.find_first_of('&'): npos makes substr(0, npos) the whole text
UpToAmpersand(focal_point) ==
  IF Find(focal_point, <<"&">>, 1) = 0 THEN focal_point
  ELSE SubSeq(focal_point, 1, Find(focal_point, <<"&">>, 1) - 1)

AfterEquals(focal_point) ==
  IF Find(focal_point, <<"=">>, 1) = 0 THEN <<>>
  ELSE Substr(focal_point, Find(focal_point, <<"=">>, 1) + 1)

Request_get_value(data, name) ==
  IF data = <<>> \/ name = <<>> THEN <<>>
  ELSE IF Find(data, name, 1) = 0 THEN <<>>
  ELSE AfterEquals(UpToAmpersand(Substr(data, Find(data, name, 1))))

query_value(uri, name) == Request_get_value(uri, name)

\* Request::method() returns a reference to the temporary that
\* Request_line::get_method() returned by value, and post_value compares
\* through it: the read is undefined.  The build may fault, or read a stale
\* value that is POST or is not.
post_value(method, body, name) ==
  {Fault, <<>>, Request_get_value(body, name)}

(***************************************************************************)
(* SpecQuery: requests whose URI query or body holds key=value pairs,      *)
(* constructed from wire text and then asked for values.  calls holds the  *)
(* pairs that were written into the text, arg[3] the name asked for.       *)
(***************************************************************************)
MaxPairs == 2
QueryKeys   == {<<"a">>, <<"b">>, <<"a", "b">>}
QueryValues == {<<"1">>, <<"a">>}
QueryNames  == QueryKeys \cup {<<"c">>}
QueryPaths  == {<<"/", "q">>, <<"/", "a">>}
QueryMethods == {GET, POST}

PairLists ==
  UNION {{pl \in [1..n -> QueryKeys \X QueryValues] :
            \A i, j \in 1..n : i # j => pl[i][1] # pl[j][1]} : n \in 1..MaxPairs}

RECURSIVE JoinPairs(_)
JoinPairs(pl) ==
  IF pl = <<>> THEN <<>>
  ELSE pl[1][1] \o <<"=">> \o pl[1][2]
       \o (IF Len(pl) = 1 THEN <<>> ELSE <<"&">> \o JoinPairs(Tail(pl)))

\* a request with one header line, as a client writes it
RequestText(method, target, body) ==
  method \o <<SP>> \o target \o <<SP>> \o HTTP_ \o <<"1", ".", "1">> \o CRLF
    \o Line(<<"H","o","s","t">>, <<"h">>) \o CRLF \o body

InitQuery ==
  /\ \E method \in QueryMethods, path \in QueryPaths, pl \in PairLists :
       /\ calls = pl
       /\ \/ /\ input = RequestText(method, path \o <<"?">> \o JoinPairs(pl), <<>>)
             /\ arg = <<2, <<>>>>
          \/ /\ input = RequestText(method, path, JoinPairs(pl))
             /\ arg = <<2, JoinPairs(pl)>>
  /\ out = NoOutcome
  /\ op = "wire"
  /\ fields_ = <<>>
  /\ capacity = 0
  /\ map_ = <<>>
  /\ limit_ = 0
  /\ message_body_ = <<>>
  /\ ret = FALSE
  /\ lret = FALSE
  /\ val = None
  /\ lval = None

QueryFrame ==
  UNCHANGED <<fields_, capacity, map_, limit_, message_body_, ret, lret, lval,
              calls, input, out>>

QueryValue ==
  \E name \in QueryNames :
    /\ op # "wire"
    /\ out.status = "ok"
    /\ val' = query_value(out.uri, name)
    /\ op' = "query_value"
    /\ arg' = <<arg[1], arg[2], name>>
    /\ QueryFrame

PostValue ==
  \E name \in QueryNames :
    /\ op # "wire"
    /\ out.status = "ok"
    /\ val' \in post_value(out.method, message_body_, name)
    /\ op' = "post_value"
    /\ arg' = <<arg[1], arg[2], name>>
    /\ QueryFrame

NextQuery ==
  \/ NewRequest
  \/ QueryValue
  \/ PostValue
  \/ RequestSetMethod
  \/ RequestSetUri

SpecQuery == InitQuery /\ [][NextQuery]_vars

\* the value paired with the key that is exactly name, or the empty text
PairedValues(pl, name) ==
  IF \E k \in 1..Len(pl) : pl[k][1] = name
  THEN {pl[k][2] : k \in {j \in 1..Len(pl) : pl[j][1] = name}}
  ELSE {<<>>}

\* C25: for a request whose URI query (POST body) is key=value pairs joined
\* by '&', query_value(k) (post_value(k)) is the value paired with the key
\* that is exactly k, and the empty text when no key equals k.
C25_KeyValueLookup ==
  /\ (op = "query_value" /\ \E path \in QueryPaths :
                              out.uri = path \o <<"?">> \o JoinPairs(calls)) =>
       val \in PairedValues(calls, arg[3])
  /\ (op = "post_value" /\ out.method = POST /\ message_body_ = JoinPairs(calls)) =>
       val \in PairedValues(calls, arg[3])

\* C26: add_body(b) with a non-empty b on a message below capacity appends
\* one Content-Length field holding the decimal length of b after the
\* fields already stored, and to_string() is the start line, the fields in
\* insertion order, a blank line and the body verbatim.
C26_AddBodyAppendsLength ==
  /\ [][(op' = "add_body" /\ arg'[1] # <<>> /\ size(fields_) < capacity) =>
          /\ fields_' = Append(fields_, <<Content_Length, to_string_num(Len(arg'[1]))>>)
          /\ message_body_' = arg'[1]]_vars
  /\ [](op = "Response::to_string" =>
          val = Status_line_to_string(out) \o FieldLines(fields_) \o CRLF
                  \o message_body_)
  /\ [](op = "Message::to_string" =>
          val = FieldLines(fields_) \o CRLF \o message_body_)

\* to_string() of a Response that got one header and then a two-byte body
C26_Witness ==
  /\ op = "Response::to_string"
  /\ message_body_ = <<"x", "y">>
  /\ fields_ = <<<<<<"A">>, <<"1">>>>, <<Content_Length, <<"2">>>>>>
  /\ val = StatusStart \o CRLF \o Line(<<"A">>, <<"1">>)
             \o Line(Content_Length, <<"2">>) \o CRLF \o <<"x", "y">>

(***************************************************************************)
(* Version comparison (src/inc/version.hpp).  A version is <<major, minor>>.*)
(***************************************************************************)
Version_eq(lhs, rhs) == lhs[1] = rhs[1] /\ lhs[2] = rhs[2]

Version_lt(lhs, rhs) == lhs[1] < rhs[1] \/ lhs[2] < rhs[2]

Version_gt(lhs, rhs) == lhs[1] > rhs[1] \/ lhs[2] > rhs[2]

Version_le(lhs, rhs) == Version_lt(lhs, rhs) \/ Version_eq(lhs, rhs)

Version_ge(lhs, rhs) == Version_gt(lhs, rhs) \/ Version_eq(lhs, rhs)

(***************************************************************************)
(* SpecVersion: two versions under the ordering operators; arg holds the   *)
(* operands, ret the result of the last comparison.                        *)
(***************************************************************************)
MaxVersion == 2
VersionNumbers == (0..MaxVersion) \X (0..MaxVersion)

InitVersion ==
  /\ \E a \in VersionNumbers, b \in VersionNumbers : arg = <<a, b>>
  /\ op = "Version"
  /\ ret = FALSE
  /\ fields_ = <<>>
  /\ capacity = 0
  /\ map_ = <<>>
  /\ limit_ = 0
  /\ message_body_ = <<>>
  /\ lret = FALSE
  /\ val = None
  /\ lval = None
  /\ calls = <<>>
  /\ input = <<>>
  /\ out = NoOutcome

VersionFrame ==
  UNCHANGED <<fields_, capacity, map_, limit_, message_body_, arg, lret, val, lval,
              calls, input, out>>

Less ==
  /\ ret' = Version_lt(arg[1], arg[2])
  /\ op' = "<"
  /\ VersionFrame

Greater ==
  /\ ret' = Version_gt(arg[1], arg[2])
  /\ op' = ">"
  /\ VersionFrame

LessOrEqual ==
  /\ ret' = Version_le(arg[1], arg[2])
  /\ op' = "<="
  /\ VersionFrame

GreaterOrEqual ==
  /\ ret' = Version_ge(arg[1], arg[2])
  /\ op' = ">="
  /\ VersionFrame

NextVersion ==
  \/ Less
  \/ Greater
  \/ LessOrEqual
  \/ GreaterOrEqual

SpecVersion == InitVersion /\ [][NextVersion]_vars

\* the lexicographic order on (major, minor)
LexLess(a, b) == a[1] < b[1] \/ (a[1] = b[1] /\ a[2] < b[2])

\* C27: a < b exactly when a.major < b.major, or the majors are equal and
\* a.minor < b.minor; a > b exactly when b < a; a < b and b < a never hold
\* together.
C27_VersionOrder ==
  /\ op = "<" => (ret <=> LexLess(arg[1], arg[2]))
  /\ op = ">" => (ret <=> LexLess(arg[2], arg[1]))
  /\ op = "<" => ~(Version_lt(arg[1], arg[2]) /\ Version_lt(arg[2], arg[1]))

\* C28: reset() on a Request or a Response leaves it as a freshly
\* default-constructed object is: start line GET / HTTP/1.1 (HTTP/1.1 200),
\* no headers, no body, and the same to_string().
C28_ResetIsDefault ==
  /\ op = "Request::reset" =>
       /\ out = DefaultRequestLine
       /\ fields_ = <<>> /\ message_body_ = <<>>
       /\ Request_to_string(out, fields_, message_body_)
            = Request_to_string(DefaultRequestLine, <<>>, <<>>)
  /\ op = "Response::reset" =>
       /\ out = DefaultStatusLine(200, <<1, 1>>)
       /\ fields_ = <<>> /\ message_body_ = <<>>
       /\ Response_to_string(out, fields_, message_body_)
            = Response_to_string(DefaultStatusLine(200, <<1, 1>>), <<>>, <<>>)

\* C29: set_limit(n) with n >= 1 makes get_limit() return n, also when n is
\* below the previous limit, and add_field is then refused as soon as
\* size() has reached n.
C29_SetLimitSetsCapacity ==
  /\ [][(op' = "set_limit" /\ arg'[1] >= 1) => get_limit(capacity') = arg'[1]]_vars
  /\ [][(op = "set_limit" /\ arg[1] >= 1 /\ op' = "add_field" /\ arg'[1] # <<>>) =>
          (ret' <=> size(fields_) < arg[1])]_vars

(***************************************************************************)
(* SpecRun: add_fields on texts in which the value of the line B: 2 is     *)
(* followed by a run of CR/LF characters.  calls holds the fields of the   *)
(* lines written before it, arg[2] the run, arg[3] the text after the run. *)
(***************************************************************************)
MaxRunLen == 4
Runs == UNION {[1..n -> {CR, LF}] : n \in 1..MaxRunLen}
EarlierLines == {<<>>, <<<<<<"A">>, <<"1">>>>>>}
RunTails == {<<>>, Line(<<"C">>, <<"3">>), <<"C">>}

RunText(lines, run, tail) ==
  Concat([k \in 1..Len(lines) |-> Line(lines[k][1], lines[k][2])])
    \o <<"B", ":", SP, "2">> \o run \o tail

InitRun ==
  /\ \E lines \in EarlierLines, run \in Runs, tail \in RunTails,
        prior \in PriorFields, limit \in 0..(MaxLimit + 1) :
       /\ Len(prior) <= limit
       /\ input = RunText(lines, run, tail)
       /\ calls = lines
       /\ arg = <<prior, run, tail>>
       /\ fields_ = prior
       /\ capacity = set_limit(0, limit)
  /\ op = "block"
  /\ out = NoOutcome
  /\ map_ = <<>>
  /\ limit_ = 0
  /\ message_body_ = <<>>
  /\ ret = FALSE
  /\ lret = FALSE
  /\ val = None
  /\ lval = None

SpecRun == InitRun /\ [][NextBulk]_vars

\* the fields before the call, then the earlier lines for which there was room
RECURSIVE KeptLines(_, _, _)
KeptLines(flds, cap, lines) ==
  IF lines = <<>> THEN flds
  ELSE KeptLines(IF Len(flds) < cap THEN Append(flds, Head(lines)) ELSE flds,
                 cap, Tail(lines))

\* C30: when a value is followed by a run of exactly three CR/LF characters
\* the bulk parse ends there: the fields stored earlier are kept, the field
\* whose value precedes the run is not added, and nothing after the run is
\* stored.
C30_ThreeTerminatorStop ==
  (op = "add_fields" /\ Len(arg[2]) = 3) =>
    fields_ = KeptLines(arg[1], capacity, calls)

\* one earlier line was stored, B: 2 before the run and C: 3 after it were not
C30_Witness ==
  /\ op = "add_fields"
  /\ arg[2] = <<CR, LF, LF>>
  /\ arg[3] = Line(<<"C">>, <<"3">>)
  /\ capacity = 3
  /\ fields_ = <<<<<<"A">>, <<"1">>>>>>

(***************************************************************************)
(* SpecEmptyValue: add_fields on a line with an empty value followed by a  *)
(* line with a value.  calls holds the two lines as written, arg[2] the    *)
(* spaces and tabs after ':', arg[3] the terminator of the first line.     *)
(***************************************************************************)
EmptyValueNames == {<<"A">>, <<"a">>, <<"X", "-", "Y">>}
EmptyValuePads  == {<<>>, <<SP>>, <<HT>>, <<SP, SP>>}
LineEndings     == {CRLF, <<LF>>}
NextLines       == {<<<<"B">>, <<"2">>>>, <<<<"C">>, <<"3">>>>}

EmptyValueText(name, pad, ending, next) ==
  name \o <<":">> \o pad \o ending \o Line(next[1], next[2])

InitEmptyValue ==
  /\ \E name \in EmptyValueNames, pad \in EmptyValuePads, ending \in LineEndings,
        next \in NextLines, prior \in PriorFields, limit \in 0..(MaxLimit + 1) :
       /\ Len(prior) <= limit
       /\ input = EmptyValueText(name, pad, ending, next)
       /\ calls = <<<<name, <<>>>>, next>>
       /\ arg = <<prior, pad, ending>>
       /\ fields_ = prior
       /\ capacity = set_limit(0, limit)
  /\ op = "block"
  /\ out = NoOutcome
  /\ map_ = <<>>
  /\ limit_ = 0
  /\ message_body_ = <<>>
  /\ ret = FALSE
  /\ lret = FALSE
  /\ val = None
  /\ lval = None

SpecEmptyValue == InitEmptyValue /\ [][NextBulk]_vars

\* C31: a line with an empty value does not absorb the line after it: the
\* following line is stored as its own field (when there is room for both),
\* and no stored value holds text of another line.
C31_EmptyValueKeepsNextLine ==
  op = "add_fields" =>
    /\ \A k \in 1..Len(fields_) : Find(fields_[k][2], <<":">>, 1) = 0
    /\ Len(arg[1]) + 2 <= capacity =>
         fields_ = arg[1] \o calls

\* C32: one add_fields call makes at most get_limit() add_field calls and
\* stores at most get_limit() minus the size before the call; when the text
\* holds more well-formed lines than that, exactly the leading lines are
\* stored, in input order, and the rest are dropped.
C32_BoundedByCapacity ==
  (op = "add_fields" /\ arg[2] = <<>>) =>
    /\ add_fields_attempts(arg[1], capacity, input) <= get_limit(capacity)
    /\ size(fields_) <= get_limit(capacity)
    /\ fields_ = arg[1] \o SubSeq(calls, 1, Min(Len(calls), capacity - Len(arg[1])))

\* two lines were given to a Header with room for one more field
C32_Witness ==
  /\ op = "add_fields"
  /\ arg[2] = <<>>
  /\ capacity = 2
  /\ arg[1] = <<<<<<"A">>, <<"1">>>>>>
  /\ calls = <<<<<<"B">>, <<"1">>>>, <<<<"a">>, <<"2">>>>>>
  /\ fields_ = <<<<<<"A">>, <<"1">>>>, <<<<"B">>, <<"1">>>>>>

\* the digit sequences of the version at the end of a Request-Line
RequestVersionTokens(line) ==
  LET p == CHOOSE k \in 1..(Len(line) - 4) :
             /\ SubSeq(line, k, k + 4) = HTTP_
             /\ \A j \in (k + 1)..(Len(line) - 4) : SubSeq(line, j, j + 4) # HTTP_
      d == Find(line, <<".">>, p)
  IN [major |-> SubSeq(line, p + 5, d - 1), minor |-> Substr(line, d + 1)]

\* C33: when a start line is accepted, the stored major and minor numbers
\* are the numbers the matched digit sequences spell, whatever their length.
C33_VersionAsWritten ==
  /\ (op = "Request_line" /\ out.status = "ok") =>
       /\ unsigned_to_string(out.major)
            = StripZeros(RequestVersionTokens(LineBeforeTerminator(arg[1])).major)
       /\ unsigned_to_string(out.minor)
            = StripZeros(RequestVersionTokens(LineBeforeTerminator(arg[1])).minor)
  /\ (op = "Status_line" /\ out.status = "ok") =>
       /\ unsigned_to_string(out.major)
            = StripZeros(StatusTokens(LineBeforeTerminator(arg[1])).major)
       /\ unsigned_to_string(out.minor)
            = StripZeros(StatusTokens(LineBeforeTerminator(arg[1])).minor)

(***************************************************************************)
(* SpecLineRoundTrip: a default-constructed Request_line under its         *)
(* setters; its to_string() is then given to the Request_line parser.      *)
(* out is the line, val its text, calls[1] what the parser made of it.     *)
(***************************************************************************)
TableMethods == 0..8
LineUris     == {<<"/">>, <<"/", "q", "?", "a", "=", "1">>}
LineVersions == {<<1, 1>>, <<2, 0>>, <<12, 3>>}

InitLine ==
  /\ out = DefaultRequestLine
  /\ op = "Request_line"
  /\ arg = <<>>
  /\ calls = <<>>
  /\ val = None
  /\ fields_ = <<>>
  /\ capacity = 0
  /\ map_ = <<>>
  /\ limit_ = 0
  /\ message_body_ = <<>>
  /\ ret = FALSE
  /\ lret = FALSE
  /\ lval = None
  /\ input = <<>>

LineFrame ==
  /\ calls' = <<>>
  /\ val' = None
  /\ UNCHANGED <<fields_, capacity, map_, limit_, message_body_, ret, lret, lval,
                 input>>

SetMethod ==
  \E m \in TableMethods :
    /\ out' = [out EXCEPT !.method = method_str(m)]
    /\ op' = "set_method"
    /\ arg' = <<m>>
    /\ LineFrame

SetUri ==
  \E uri \in LineUris :
    /\ out' = [out EXCEPT !.uri = uri]
    /\ op' = "set_uri"
    /\ arg' = <<uri>>
    /\ LineFrame

SetVersion ==
  \E v \in LineVersions :
    /\ out' = [out EXCEPT !.major = ToUnsigned(v[1]), !.minor = ToUnsigned(v[2])]
    /\ op' = "set_version"
    /\ arg' = <<v>>
    /\ LineFrame

LineRoundTrip ==
  /\ val' = Request_line_to_string(out)
  /\ calls' = <<Request_line(Request_line_to_string(out))>>
  /\ op' = "round_trip"
  /\ arg' = <<>>
  /\ UNCHANGED <<fields_, capacity, map_, limit_, message_body_, ret, lret, lval,
                 input, out>>

NextLine ==
  \/ SetMethod
  \/ SetUri
  \/ SetVersion
  \/ LineRoundTrip

SpecLineRoundTrip == InitLine /\ [][NextLine]_vars

\* C34: for every method of the table other than INVALID, a URI without
\* whitespace and any version, the text to_string() produces is accepted by
\* the Request_line parser and parses back to the same method, URI and
\* version.
C34_LineRoundTrip ==
  op = "round_trip" =>
    /\ calls[1].status = "ok"
    /\ calls[1].method = out.method
    /\ calls[1].uri = out.uri
    /\ calls[1].major = out.major
    /\ calls[1].minor = out.minor

(***************************************************************************)
(* The legacy Request (src/http/request.hpp).  Its Request_Line leaves     *)
(* the caller's buffer cut after the first CRLF; the body is then          *)
(* request.substr(request.find("\r\n\r\n") + 4) of what is left.  For a    *)
(* text without the separator find() gives npos and npos + 4 wraps to 3:   *)
(* substr(3) throws std::out_of_range on a text shorter than 3.            *)
(***************************************************************************)
Legacy_Request_line_rest(request) ==
  IF Find(request, CRLF, 1) # 0
  THEN Substr(request, Find(request, CRLF, 1) + 2)
  ELSE Substr(request, 2)

Legacy_message_body(rest) ==
  IF Find(rest, BlankLine, 1) # 0
  THEN [status |-> "ok", body |-> Substr(rest, Find(rest, BlankLine, 1) + 4)]
  ELSE IF Len(rest) < 3
  THEN [status |-> "out_of_range", body |-> <<>>]
  ELSE [status |-> "ok", body |-> Substr(rest, 4)]

Legacy_Request_body(request) == Legacy_message_body(Legacy_Request_line_rest(request))

\* the text after the first CRLF CRLF of the text, nothing without one
AfterSeparator(text) ==
  IF Find(text, BlankLine, 1) # 0
  THEN Substr(text, Find(text, BlankLine, 1) + 4)
  ELSE <<>>

\* C35: the body of a constructed Request is the text after the first
\* CRLF CRLF of the input; for an input without that separator the body is
\* empty and no Content-Length field is added.  The same holds for the body
\* the legacy Request takes from the same input.
C35_BodyAfterSeparator ==
  (op = "Request" /\ out.status = "ok") =>
    /\ message_body_ = AfterSeparator(input)
    /\ Find(input, BlankLine, 1) = 0 => ~has_header(fields_, Content_Length)
    /\ SubSeq(input, 1, Len(RequestStart) + 2) = RequestStart \o CRLF =>
         /\ Legacy_Request_body(input).status = "ok"
         /\ Legacy_Request_body(input).body = AfterSeparator(input)

(***************************************************************************)
(* SpecParse: Header::add_fields statement by statement.  op is the place  *)
(* in the code, out holds the locals (iterator is a 1-based position,      *)
(* Len(input) + 1 is the sentinel), calls holds the positions of the       *)
(* characters the last step read, and lval holds the cursor and the        *)
(* counter at the start of the current pass of the outer loop or at the    *)
(* last jump to parse_value.                                               *)
(***************************************************************************)
ParseChars      == AnyChars \cup {HT}
ParseLeads      == {<<>>, <<"a", ":", "a", LF>>}
ParseCapacities == {0, 1, 2}
ParseTexts ==
  {lead \o t : lead \in ParseLeads,
               t \in UNION {[1..n -> ParseChars] : n \in 0..MaxTextLen}}

NoLocals == [iterator |-> 0, character |-> NUL, limit |-> 0, lws_count |-> 0,
             field |-> <<>>, value |-> <<>>]

\* character = *++iterator
Advance(data, l) ==
  [l EXCEPT !.iterator = @ + 1, !.character = At(data, l.iterator + 1)]

\* iterator not_eq sentinel
NotAtEnd(data, l) == l.iterator # Len(data) + 1

\* the character tests of the name loop and of the value loop (stop_char,
\* eof, is no character of a text)
NameCharacter(c) == c # ":" /\ ~iscntrl(c) /\ ~isspace(c)

\* a value loop that stops at LF only
ValueCharacter_to_LF(c) == c # LF

ValueCharacter(c) ==
  ~iscntrl(c) /\ c # CR /\ c # LF

\* the two tests in front of isspace(*(iterator + 1)): when both hold the
\* look-ahead character is read, whatever it turns out to be
LookAheadRead(data, l) == NotAtEnd(data, l) /\ l.iterator + 1 # Len(data) + 1

\* one pass of the folding loop: the locals after it and where the code
\* goes next
Fold_in_place(data, l) ==
  IF NotAtEnd(data, l) /\ isspace(l.character)
  THEN [locals |-> l,
        pc     |-> IF LookAheadRead(data, l) /\ isspace(At(data, l.iterator + 1))
                   THEN "fold" ELSE "parse_value",
        reads  |-> IF LookAheadRead(data, l) THEN <<l.iterator + 1>> ELSE <<>>]
  ELSE [locals |-> l, pc |-> "add_field", reads |-> <<>>]

Fold(data, l) ==
  IF NotAtEnd(data, l) /\ isspace(l.character)
  THEN [locals |-> Advance(data, l),
        pc     |-> IF /\ LookAheadRead(data, Advance(data, l))
                      /\ isspace(At(data, l.iterator + 2))
                   THEN "fold" ELSE "parse_value",
        reads  |-> IF LookAheadRead(data, Advance(data, l))
                   THEN <<l.iterator + 1, l.iterator + 2>>
                   ELSE <<l.iterator + 1>>]
  ELSE [locals |-> l, pc |-> "add_field", reads |-> <<>>]

InitParse ==
  /\ \E data \in ParseTexts, cap \in ParseCapacities :
       /\ input = data
       /\ capacity = cap
  /\ op = "add_fields"
  /\ out = NoLocals
  /\ calls = <<>>
  /\ lval = <<0, 0>>
  /\ fields_ = <<>>
  /\ arg = <<>>
  /\ map_ = <<>>
  /\ limit_ = 0
  /\ message_body_ = <<>>
  /\ ret = FALSE
  /\ lret = FALSE
  /\ val = None

ParseFrame == UNCHANGED <<capacity, map_, limit_, message_body_, arg, ret, lret,
                          val, input>>

\* a step that stays in its loop while test holds and leaves it for next
LoopStep(here, test, next) ==
  /\ op = here
  /\ IF test
     THEN /\ out' = Advance(input, out)
          /\ calls' = <<out.iterator + 1>>
          /\ op' = here
     ELSE /\ out' = out
          /\ calls' = <<>>
          /\ op' = next
  /\ UNCHANGED <<fields_, lval>>
  /\ ParseFrame

\* if (data.empty()) return;  int character = *iterator;
Begin ==
  /\ op = "add_fields"
  /\ IF input = <<>>
     THEN /\ op' = "return"
          /\ out' = out
          /\ calls' = <<>>
     ELSE /\ op' = "while"
          /\ out' = [NoLocals EXCEPT !.iterator = 1, !.character = At(input, 1)]
          /\ calls' = <<1>>
  /\ UNCHANGED <<fields_, lval>>
  /\ ParseFrame

\* the test of the outer loop; field.clear(); value.clear();
While ==
  /\ op = "while"
  /\ IF NotAtEnd(input, out) /\ out.limit < capacity
     THEN /\ op' = "skip_before_name"
          /\ out' = [out EXCEPT !.field = <<>>, !.value = <<>>]
          /\ lval' = <<out.iterator, out.limit>>
     ELSE /\ op' = "return"
          /\ out' = out
          /\ lval' = lval
  /\ calls' = <<>>
  /\ UNCHANGED fields_
  /\ ParseFrame

SkipBeforeName ==
  LoopStep("skip_before_name", NotAtEnd(input, out) /\ isspace(out.character), "name")

ScanName ==
  /\ op = "name"
  /\ IF NotAtEnd(input, out) /\ NameCharacter(out.character)
     THEN /\ out' = Advance(input, [out EXCEPT !.field = Append(@, out.character)])
          /\ calls' = <<out.iterator + 1>>
          /\ op' = "name"
     ELSE /\ out' = out
          /\ calls' = <<>>
          /\ op' = "skip_after_name"
  /\ UNCHANGED <<fields_, lval>>
  /\ ParseFrame

SkipAfterName ==
  LoopStep("skip_after_name", NotAtEnd(input, out) /\ isspace(out.character), "colon")

\* if (character not_eq ':') return;
\* if (iterator not_eq sentinel) character = *++iterator;
Colon ==
  /\ op = "colon"
  /\ IF out.character # ":"
     THEN /\ op' = "return"
          /\ out' = out
          /\ calls' = <<>>
     ELSE /\ op' = "skip_before_value"
          /\ out' = IF NotAtEnd(input, out) THEN Advance(input, out) ELSE out
          /\ calls' = IF NotAtEnd(input, out) THEN <<out.iterator + 1>> ELSE <<>>
  /\ UNCHANGED <<fields_, lval>>
  /\ ParseFrame

SkipBeforeValue ==
  LoopStep("skip_before_value", NotAtEnd(input, out) /\ isspace(out.character),
           "parse_value")

\* the loop at the label parse_value; int lws_count {0};
ScanValueStep ==
  /\ op = "parse_value"
  /\ IF NotAtEnd(input, out) /\ ValueCharacter(out.character)
     THEN /\ out' = Advance(input, [out EXCEPT !.value = Append(@, out.character)])
          /\ calls' = <<out.iterator + 1>>
          /\ op' = "parse_value"
     ELSE /\ out' = [out EXCEPT !.lws_count = 0]
          /\ calls' = <<>>
          /\ op' = "terminators"
  /\ UNCHANGED <<fields_, lval>>
  /\ ParseFrame

\* the terminator loop; if (lws_count == 3) break;
Terminators ==
  /\ op = "terminators"
  /\ IF NotAtEnd(input, out) /\ (out.character = CR \/ out.character = LF)
     THEN /\ out' = [Advance(input, out) EXCEPT !.lws_count = @ + 1]
          /\ calls' = <<out.iterator + 1>>
          /\ op' = "terminators"
     ELSE /\ out' = out
          /\ calls' = <<>>
          /\ op' = IF out.lws_count = 3 THEN "return" ELSE "fold"
  /\ UNCHANGED <<fields_, lval>>
  /\ ParseFrame

\* one pass of the folding loop: continue, goto parse_value, or fall through
FoldStep ==
  /\ op = "fold"
  /\ out' = Fold(input, out).locals
  /\ calls' = Fold(input, out).reads
  /\ op' = Fold(input, out).pc
  /\ lval' = IF Fold(input, out).pc = "parse_value"
             THEN <<Fold(input, out).locals.iterator, out.limit>>
             ELSE lval
  /\ UNCHANGED fields_
  /\ ParseFrame

\* add_field(field, value); ++limit;
AddFieldStep ==
  /\ op = "add_field"
  /\ fields_' = add_field(fields_, capacity, out.field, out.value).fields
  /\ out' = [out EXCEPT !.limit = @ + 1]
  /\ calls' = <<>>
  /\ op' = "while"
  /\ UNCHANGED lval
  /\ ParseFrame

NextParse ==
  \/ Begin
  \/ While
  \/ SkipBeforeName
  \/ ScanName
  \/ SkipAfterName
  \/ Colon
  \/ SkipBeforeValue
  \/ ScanValueStep
  \/ Terminators
  \/ FoldStep
  \/ AddFieldStep

SpecParse == InitParse /\ [][NextParse]_vars

\* the statement-by-statement parse stores what add_fields stores
ParseAgrees == op = "return" => fields_ = add_fields(<<>>, capacity, input)

\* C36: every character the bulk parser reads, the one-character look-ahead
\* of the folding loop included, is at a position inside the text, and the
\* cursor never moves past the end of the text.
C36_ReadsInsideInput ==
  /\ \A k \in 1..Len(calls) : calls[k] >= 1 /\ calls[k] <= Len(input)
  /\ out.iterator <= Len(input) + 1

(***************************************************************************)
(* SpecParseFair: the same parse, with the processor taking a step         *)
(* whenever one is possible.                                               *)
(***************************************************************************)
SpecParseFair == InitParse /\ [][NextParse]_vars /\ WF_vars(NextParse)

\* the end of a pass of the outer loop, or a jump back to parse_value
PassOrJump ==
  \/ op = "add_field" /\ op' = "while"
  \/ op = "fold" /\ op' = "parse_value"

\* C37: bulk parsing terminates on every text: every pass of the outer loop
\* and every jump back to parse_value leaves the cursor further on or the
\* attempt counter higher than it was at the start of the pass or at the
\* jump before, and every parse reaches its return.
C37_ParseTerminates ==
  /\ [][PassOrJump => (out'.iterator > lval[1] \/ out'.limit > lval[2])]_vars
  /\ <>(op = "return")

\* a text that ends in whitespace only was parsed to its end, after two
\* jumps back to parse_value
C37_Witness ==
  /\ op = "return"
  /\ input = <<"a", ":", "a", LF, HT, SP, HT>>
  /\ capacity = 1
  /\ lval[1] > 5

\* C38: every field stored by bulk parsing is well-formed: its name is not
\* empty and holds no ':', no whitespace and no control character, and its
\* value holds no CR, no LF and no other control character.
C38_StoredFieldsWellFormed ==
  \A k \in 1..Len(fields_) :
    /\ fields_[k][1] # <<>>
    /\ \A i \in 1..Len(fields_[k][1]) :
         /\ fields_[k][1][i] # ":"
         /\ ~isspace(fields_[k][1][i])
         /\ ~iscntrl(fields_[k][1][i])
    /\ \A i \in 1..Len(fields_[k][2]) :
         /\ fields_[k][2][i] \notin {CR, LF}
         /\ ~iscntrl(fields_[k][2][i])

\* a value folded over a line break was stored: the break is not part of it
C38_Witness ==
  /\ op = "return"
  /\ input = <<"a", ":", "a", LF, HT, "a">>
  /\ fields_ = <<<<<<"a">>, <<"a", "a">>>>>>

\* C39: a Request_line construction that raises an error leaves the
\* caller's buffer as it was before the call: the start line is cut off the
\* buffer only when the construction succeeds.
C39_FailureKeepsBuffer ==
  (op = "Request_line" /\ out.status # "ok") => input = arg[1]

\* a text with a line terminator and a line outside the grammar was refused
C39_Witness ==
  /\ op = "Request_line"
  /\ out.status = "Request_line_error"
  /\ Len(arg[1]) >= MinRequestLength
  /\ HasLF(arg[1])
  /\ input = arg[1]

====
